---------------------------- MODULE Spec2Model ----------------------------
(***************************************************************************)
(* HookCI pipeline execution engine: CiExecutionService.run and the        *)
(* operations of DockerService / GitService it drives.                     *)
(*                                                                         *)
(* run() is a Python generator.  A state of the model is the generator's   *)
(* state between two resumptions plus everything it has done so far: the   *)
(* events it yielded, the calls it made on its collaborators, and the      *)
(* containers that exist in the daemon.  `pc` is the program point,        *)
(* `at_yield` says whether the generator is suspended at a yield (only     *)
(* there can the consumer abandon it).                                     *)
(***************************************************************************)
EXTENDS Naturals, Sequences, FiniteSets

(***************************************************************************)
(* Bounds of the model.                                                    *)
(***************************************************************************)
\* longest declared step list
MaxSteps == 2
\* log frames one run's driver generators yield in total
MaxFrames == 2
\* (step, line) tuples one build_image generator yields
MaxBuildLines == 1
MaxWireFrames == 2
MaxDeps == 2

(***************************************************************************)
(* Values.                                                                 *)
(***************************************************************************)
\* Python's None, for optional strings
None == "None"
\* the outcome of a source-control probe that raises GitCommandError
ScmFail == "<GitCommandError>"

HookTypes == {None, "pre-commit", "pre-push"}
Statuses == {"SUCCESS", "WARNING", "FAILURE"}
Streams == {"stdout", "stderr"}
\* exit codes a container command ends with
ExitCodes == {0, 2}
\* what the generator of the driver returns when its sequence ends, as the
\* set of the values it returns: an exit code, or nothing (a bare return,
\* StopIteration.value is None)
Terminals == {{}} \cup {{c} : c \in ExitCodes}
\* the id the daemon gives the persistent container
PersistentId == "c-debug"
\* the id the daemon gives the transient container of the i-th step
TransientIds == <<"c-step1", "c-step2", "c-step3", "c-step4">>
\* names and commands of the declared steps, by position
StepNames == <<"lint", "test", "build", "deploy">>
StepCommands == <<"make lint", "make test", "make build", "make deploy">>
\* the recipe at git_root / config.docker.dockerfile: its path, the number
\* count_dockerfile_steps returns for it, and the tag
\* hookci/{git_root.name}:{calculate_dockerfile_hash(path)} of its image
Recipe == [path |-> "/repo/Dockerfile", instructions |-> 3,
           tag |-> "hookci/repo:0123456789ab"]
\* the regular expressions and subjects of the filter gate
BranchPattern == "feature/.*"
CommitPattern == "feat"
Branches == {"feature/x", "my-feature/x"}
Messages == {"feat: add x", "wip feat"}

\* Python truthiness of an Optional[str]
Truthy(s) == s # None /\ s # ""

\* re.match(pattern, subject): the pattern must match at the START of the
\* subject (not anywhere, not the whole of it).  Tabulated for the patterns
\* and subjects of the model.
ReMatch(pattern, subject) ==
    \/ pattern = "feature/.*" /\ subject \in {"feature/x"}
    \/ pattern = "feat" /\ subject \in {"feat: add x", "feature/x"}
    \/ pattern = ""


(***************************************************************************)
(* Configuration (domain/config.py).  A Step keeps name, command and       *)
(* critical and depends_on; env is passed through and not read by run().   *)
(***************************************************************************)
Step(i, critical) ==
    [name |-> StepNames[i], command |-> StepCommands[i], critical |-> critical,
     depends_on |-> {}]

\* every step list of length <= n; the i-th step has the i-th name
StepLists(n) ==
    UNION {{[i \in 1..k |-> Step(i, crit[i])] : crit \in [1..k -> BOOLEAN]} :
           k \in 0..n}

\* the same steps, the first one depending on the second (a valid graph
\* whose dependency order is not the declaration order)
LateDependency(steps) == [steps EXCEPT ![1].depends_on = {steps[2].name}]

\* Docker(image, dockerfile) values check_image_or_dockerfile accepts:
\* exactly one of the two is not None (the empty string is not None)
DockerAccepted(d) ==
    /\ ~(d.image = None /\ d.dockerfile = None)
    /\ ~(d.image # None /\ d.dockerfile # None)

DockerConfigs ==
    {d \in [image : {None, "", "busybox:latest"},
            dockerfile : {None, "Dockerfile"}] : DockerAccepted(d)}

\* Optional[Filters]: present = FALSE is filters = None
FilterConfigs ==
    {[present |-> FALSE, branches |-> None, commits |-> None]} \cup
    [present : {TRUE}, branches : {None, "", BranchPattern},
     commits : {None, "", CommitPattern}]

HookConfigs == [pre_commit : BOOLEAN, pre_push : BOOLEAN]

\* what the source-control probes would answer in the repository state
ScmStates == [branch : Branches \cup {ScmFail}, message : Messages \cup {"", ScmFail}]

(***************************************************************************)
(* State.                                                                  *)
(***************************************************************************)
VARIABLES
    hook_type,      \* run(hook_type, ...): None, "pre-commit" or "pre-push"
    debug_arg,      \* run(..., debug): the caller's flag
    config,         \* the validated Configuration
    scm,            \* what the source-control probes answer
    pc,             \* program point of the generator run()
    at_yield,       \* TRUE iff run() is suspended at a yield
    debug,          \* the local `debug` of run() after the hook check
    exception,      \* the exception that left run(), or None
    events,         \* the events yielded so far, in order
    calls,          \* calls made on docker service, scm service and logger
    docker_image,   \* the image _prepare_docker_image returned (None: absent)
    container_id,   \* debug mode: the id start_persistent_container returned
    final_status,   \* the accumulator of the step loop ("UNSET" before it)
    step_idx,       \* position of the for loop in config.steps
    containers,     \* ids of the containers that exist in the daemon
    removals,       \* ids container.remove() was invoked on, in order
    frames,         \* frames[i]: the frames the driver yielded for step i
    outcomes,       \* outcomes[i]: how the driver's generator of step i ended
    sent,           \* the frames the daemon wrote to a log stream, in order
    residue,        \* bytes the daemon wrote after its last whole frame
    wire,           \* bytes of the log stream not yet delivered in a chunk
    buffer,         \* the local `buffer` of _demultiplex_docker_stream
    decoded,        \* the (stream, text) pairs it yielded so far, in order
    demux_pc,       \* program point of _demultiplex_docker_stream
    splits,         \* where chunk boundaries fell: in a header, in a payload
    declared,       \* the steps of a configuration under validation
    verdict         \* what validate_dag did with them

demux == <<sent, residue, wire, buffer, decoded, demux_pc, splits>>
\* what run() never writes: its arguments and the state of the other units
dag == <<declared, verdict>>
inputs == <<hook_type, debug_arg, config, scm, demux, dag>>
daemon == <<containers, removals>>
ghost == <<frames, outcomes>>
locals == <<debug, docker_image, container_id, final_status, step_idx>>
vars == <<hook_type, debug_arg, config, scm, pc, at_yield, debug, exception,
          events, calls, docker_image, container_id, final_status, step_idx,
          containers, removals, frames, outcomes,
          sent, residue, wire, buffer, decoded, demux_pc, splits,
          declared, verdict>>
\* what the units other than run() never write
pipeline == <<hook_type, debug_arg, config, scm, pc, at_yield, debug,
              exception, events, calls, docker_image, container_id,
              final_status, step_idx, containers, removals, frames, outcomes>>

(***************************************************************************)
(* Events (application/events.py).                                         *)
(***************************************************************************)
\* mutant: the event does not carry the number of steps
PipelineStart_NoCount(n, level) ==
    [type |-> "PipelineStart", total_steps |-> 0, log_level |-> level]

PipelineStart(n, level) ==
    [type |-> "PipelineStart", total_steps |-> n, log_level |-> level]
PipelineEnd(status) == [type |-> "PipelineEnd", status |-> status]
ImagePullStart(name) == [type |-> "ImagePullStart", image_name |-> name]
ImagePullEnd(status) == [type |-> "ImagePullEnd", status |-> status]
ImageBuildStart(path, tag, n) ==
    [type |-> "ImageBuildStart", dockerfile_path |-> path, tag |-> tag,
     total_steps |-> n]
ImageBuildProgress(n, line) ==
    [type |-> "ImageBuildProgress", step |-> n, line |-> line]
ImageBuildEnd(status) == [type |-> "ImageBuildEnd", status |-> status]
StepStart(step) == [type |-> "StepStart", step |-> step]
LogLine(line, stream, name) ==
    [type |-> "LogLine", line |-> line, stream |-> stream, step_name |-> name]
StepEnd(step, status, code) ==
    [type |-> "StepEnd", step |-> step, status |-> status, exit_code |-> code]
DebugShellStarting(step, cid) ==
    [type |-> "DebugShellStarting", step |-> step, container_id |-> cid]

\* yield e
Emit(e) == events' = Append(events, e) /\ at_yield' = TRUE

\* a call on a collaborator, made after Len(events) events were yielded;
\* result is kept for image_exists and for containers.run (None elsewhere)
Call(on, op, args) ==
    [on |-> on, op |-> op, args |-> args, at |-> Len(events), result |-> None]
DockerCall(op, args) == Call("docker", op, args)
LogCall(level, msg) == Call("logger", level, <<msg>>)

(***************************************************************************)
(* The filter gate (services.py, _is_hook_enabled / _passes_filters /      *)
(* _should_run).  A gate result is the decision and the probes it made.    *)
(***************************************************************************)
IsHookEnabled(h, cfg) ==
    IF h = "pre-commit" /\ ~cfg.hooks.pre_commit THEN FALSE
    ELSE IF h = "pre-push" /\ ~cfg.hooks.pre_push THEN FALSE
    ELSE TRUE

GateResult(decision, probes) == [decision |-> decision, probes |-> probes]

\* mutant: the commits filter applied whatever the hook type
PassesCommitFilter_AnyHook(h, cfg, env, probes) ==
    IF Truthy(cfg.filters.commits)
    THEN LET asked == Append(probes, "get_staged_commit_message")
         IN  IF env.message = ScmFail THEN GateResult("raise", asked)
             ELSE IF ~ReMatch(cfg.filters.commits, env.message)
                  THEN GateResult("skip", asked)
                  ELSE GateResult("proceed", asked)
    ELSE GateResult("proceed", probes)

\* the commits part of _passes_filters, after the branch filter let it pass
PassesCommitFilter(h, cfg, env, probes) ==
    IF h = "pre-commit" /\ Truthy(cfg.filters.commits)
    THEN LET asked == Append(probes, "get_staged_commit_message")
         IN  IF env.message = ScmFail THEN GateResult("raise", asked)
             ELSE IF ~ReMatch(cfg.filters.commits, env.message)
                  THEN GateResult("skip", asked)
                  ELSE GateResult("proceed", asked)
    ELSE GateResult("proceed", probes)

\* mutant: both probes are made before either filter is looked at
PassesFilters_Eager(h, cfg, env) ==
    IF ~cfg.filters.present THEN GateResult("proceed", <<>>)
    ELSE LET asked == <<"get_current_branch", "get_staged_commit_message">>
         IN  IF ScmFail \in {env.branch, env.message} THEN GateResult("raise", asked)
             ELSE IF Truthy(cfg.filters.branches) /\ ~ReMatch(cfg.filters.branches, env.branch)
                  THEN GateResult("skip", asked)
             ELSE IF h = "pre-commit" /\ Truthy(cfg.filters.commits)
                        /\ ~ReMatch(cfg.filters.commits, env.message)
                  THEN GateResult("skip", asked)
             ELSE GateResult("proceed", asked)

\* _passes_filters (309-332)
PassesFilters(h, cfg, env) ==
    IF ~cfg.filters.present THEN GateResult("proceed", <<>>)
    ELSE IF Truthy(cfg.filters.branches)
         THEN LET asked == <<"get_current_branch">>
              IN  IF env.branch = ScmFail THEN GateResult("raise", asked)
                  ELSE IF ~ReMatch(cfg.filters.branches, env.branch)
                       THEN GateResult("skip", asked)
                       ELSE PassesCommitFilter(h, cfg, env, asked)
         ELSE PassesCommitFilter(h, cfg, env, <<>>)

ShouldRun(h, cfg, env) ==
    IF ~Truthy(h) THEN GateResult("proceed", <<>>)
    ELSE IF ~IsHookEnabled(h, cfg) THEN GateResult("skip", <<>>)
    ELSE PassesFilters(h, cfg, env)

\* the probe calls of a gate result, as entries of `calls`
ProbeCalls(probes) == [i \in 1..Len(probes) |-> Call("scm", probes[i], <<>>)]


(***************************************************************************)
(* Initial states: run(hook_type, debug) has been called (the generator    *)
(* exists and has not been resumed yet) on a repository whose              *)
(* configuration passed validation.                                        *)
(***************************************************************************)
RunInput(h, d, hooks, filters, level, docker, steps, env) ==
    [hook_type |-> h, debug |-> d,
     config |-> [log_level |-> level, docker |-> docker, hooks |-> hooks,
                 filters |-> filters, steps |-> steps],
     scm |-> env]

InitOver(Inputs) ==
    /\ \E i \in Inputs :
        /\ hook_type = i.hook_type
        /\ debug_arg = i.debug
        /\ config = i.config
        /\ scm = i.scm
    /\ pc = "created"
    /\ at_yield = FALSE
    /\ debug = debug_arg
    /\ exception = None
    /\ events = <<>>
    /\ calls = <<>>
    /\ docker_image = None
    /\ container_id = None
    /\ final_status = "UNSET"
    /\ step_idx = 0
    /\ containers = {}
    /\ removals = <<>>
    /\ frames = <<>>
    /\ outcomes = <<>>

(***************************************************************************)
(* run(): configuration load, filter gate, mode selection                  *)
(* (services.py 146-168) up to the first yield of the pipeline (173/211).  *)
(***************************************************************************)
Gate == ShouldRun(hook_type, config, scm)

\* mutant: PipelineStart yielded before the gate's decision is looked at
Run_Skip_AfterStart ==
    /\ pc = "created"
    /\ Gate.decision = "skip"
    /\ calls' = calls \o ProbeCalls(Gate.probes)
    /\ Emit(PipelineStart(Len(config.steps), config.log_level))
    /\ pc' = "ended"
    /\ UNCHANGED <<inputs, exception, locals, daemon, ghost>>

\* _should_run returned False: run() returns before its first yield
Run_Skip ==
    /\ pc = "created"
    /\ Gate.decision = "skip"
    /\ calls' = calls \o ProbeCalls(Gate.probes)
    /\ pc' = "done"
    /\ UNCHANGED <<inputs, at_yield, exception, events, locals, daemon, ghost>>

\* mutant: the probe's error is caught and the run goes on
Run_Raise_Swallowed ==
    /\ pc = "created"
    /\ Gate.decision = "raise"
    /\ calls' = calls \o ProbeCalls(Gate.probes)
    /\ Emit(PipelineStart(Len(config.steps), config.log_level))
    /\ pc' = "prepare"
    /\ UNCHANGED <<inputs, exception, locals, daemon, ghost>>

\* a probe of _should_run raised: the error leaves run()
Run_Raise ==
    /\ pc = "created"
    /\ Gate.decision = "raise"
    /\ calls' = calls \o ProbeCalls(Gate.probes)
    /\ pc' = "raised"
    /\ exception' = "GitCommandError"
    /\ UNCHANGED <<inputs, at_yield, events, locals, daemon, ghost>>

\* mutant: the caller's debug flag is honoured for hook runs
ForcedStandard_Never == FALSE

\* `if debug and hook_type`: the warning, and debug forced off
ForcedStandard == debug_arg /\ Truthy(hook_type)

\* _should_run returned True: mode selection, then yield PipelineStart
Run_Proceed ==
    /\ pc = "created"
    /\ Gate.decision = "proceed"
    /\ calls' = calls \o ProbeCalls(Gate.probes) \o
                (IF ForcedStandard
                 THEN <<LogCall("warning", "debug not supported for hook runs")>>
                 ELSE <<>>)
    /\ debug' = (debug_arg /\ ~ForcedStandard)
    /\ Emit(PipelineStart(Len(config.steps), config.log_level))
    /\ pc' = "prepare"
    /\ UNCHANGED <<inputs, exception, docker_image, container_id, final_status,
                   step_idx, daemon, ghost>>


(***************************************************************************)
(* _prepare_docker_image (services.py 349-421).  pc = "prepare": run() is  *)
(* suspended at yield PipelineStart; pc = "prepared": the image tag (or    *)
(* None) is back in _run_pipeline_*.                                       *)
(***************************************************************************)
\* neither docker.dockerfile nor docker.image is truthy: the safeguard raises
Prepare_Unreachable ==
    /\ pc = "prepare"
    /\ ~Truthy(config.docker.dockerfile)
    /\ ~Truthy(config.docker.image)
    /\ pc' = "raised"
    /\ exception' = "ConfigurationParseError"
    /\ at_yield' = FALSE
    /\ UNCHANGED <<inputs, events, calls, locals, daemon, ghost>>

HashCall == DockerCall("calculate_dockerfile_hash", <<Recipe.path>>)
\* image_exists(tag) answering "True", "False" or "DockerError"
ExistsCall(tag, answer) ==
    [DockerCall("image_exists", <<tag>>) EXCEPT !.result = answer]
CountCall == DockerCall("count_dockerfile_steps", <<Recipe.path>>)

\* the call, having raised DockerError
Failed(call) == [call EXCEPT !.result = "DockerError"]

\* mutant: a failing cache check falls through to the build, as on the
\* registry path
Dockerfile_Prepare_CheckFallsThrough ==
    /\ pc = "prepare"
    /\ Truthy(config.docker.dockerfile)
    /\ \E how \in {"hash_error", "cached", "exists_error", "count_error", "build"} :
        /\ calls' = calls \o
             (CASE how = "hash_error" -> <<Failed(HashCall), LogCall("error", "build preparation failed")>>
                [] how = "cached" -> <<HashCall, ExistsCall(Recipe.tag, "True")>>
                [] how = "exists_error" ->
                     <<HashCall, ExistsCall(Recipe.tag, "DockerError"),
                       LogCall("warning", "could not check image"), CountCall>>
                [] how = "count_error" ->
                     <<HashCall, ExistsCall(Recipe.tag, "False"), Failed(CountCall),
                       LogCall("error", "build preparation failed")>>
                [] how = "build" -> <<HashCall, ExistsCall(Recipe.tag, "False"), CountCall>>)
        /\ IF how \in {"build", "exists_error"}
           THEN /\ Emit(ImageBuildStart(Recipe.path, Recipe.tag, Recipe.instructions))
                /\ pc' = "building"
                /\ UNCHANGED docker_image
           ELSE /\ docker_image' = (IF how = "cached" THEN Recipe.tag ELSE None)
                /\ pc' = "prepared"
                /\ at_yield' = FALSE
                /\ UNCHANGED events
    /\ UNCHANGED <<inputs, exception, debug, container_id, final_status, step_idx,
                   daemon, ghost>>

\* _prepare_from_dockerfile up to its first yield or return (369-389)
Dockerfile_Prepare ==
    /\ pc = "prepare"
    /\ Truthy(config.docker.dockerfile)
    /\ \E how \in {"hash_error", "cached", "exists_error", "count_error", "build"} :
        /\ calls' = calls \o
             (CASE how = "hash_error" -> <<Failed(HashCall), LogCall("error", "build preparation failed")>>
                [] how = "cached" -> <<HashCall, ExistsCall(Recipe.tag, "True")>>
                [] how = "exists_error" ->
                     <<HashCall, ExistsCall(Recipe.tag, "DockerError"),
                       LogCall("error", "build preparation failed")>>
                [] how = "count_error" ->
                     <<HashCall, ExistsCall(Recipe.tag, "False"), Failed(CountCall),
                       LogCall("error", "build preparation failed")>>
                [] how = "build" -> <<HashCall, ExistsCall(Recipe.tag, "False"), CountCall>>)
        /\ IF how = "build"
           THEN /\ Emit(ImageBuildStart(Recipe.path, Recipe.tag, Recipe.instructions))
                /\ pc' = "building"
                /\ UNCHANGED docker_image
           ELSE /\ docker_image' = (IF how = "cached" THEN Recipe.tag ELSE None)
                /\ pc' = "prepared"
                /\ at_yield' = FALSE
                /\ UNCHANGED events
    /\ UNCHANGED <<inputs, exception, debug, container_id, final_status, step_idx,
                   daemon, ghost>>

BuildCall == DockerCall("build_image", <<Recipe.path, Recipe.tag>>)
BuildCalled == \E k \in 1..Len(calls) : calls[k].op = "build_image"
BuildLines == Cardinality({k \in 1..Len(events) : events[k].type = "ImageBuildProgress"})
\* build_image is called when run() is resumed after ImageBuildStart (391)
WithBuildCall == IF BuildCalled THEN calls ELSE Append(calls, BuildCall)

\* the chunks of the daemon's build stream: a stream chunk with a line or
\* with blank text, an error chunk, a chunk with neither field
BuildChunks ==
    {[stream |-> "Step", error |-> FALSE], [stream |-> "", error |-> FALSE],
     [stream |-> None, error |-> TRUE], [stream |-> None, error |-> FALSE]}

\* what the loop of build_image does with a chunk (docker.py 229-240)
OnChunk(chunk) ==
    IF chunk.stream # None
    THEN (IF chunk.stream = "" THEN "continue" ELSE "yield")
    ELSE IF chunk.error THEN "raise"
    ELSE "continue"

\* how the generator of build_image ended, set on its call
EndedBuild(how) ==
    LET cs == WithBuildCall
        k == CHOOSE k \in 1..Len(cs) : cs[k].op = "build_image"
    IN  [cs EXCEPT ![k].result = how]

\* the build generator yields a (step, line) tuple (392-393); the chunks it
\* skips before leave no trace
Build_Progress ==
    /\ pc = "building"
    /\ BuildLines < MaxBuildLines
    /\ \E chunk \in BuildChunks : OnChunk(chunk) = "yield"
    /\ calls' = WithBuildCall
    /\ Emit(ImageBuildProgress(BuildLines + 1, "Step"))
    /\ UNCHANGED <<inputs, pc, exception, locals, daemon, ghost>>

\* mutant: the tag is returned after a failed build as well
Build_End_KeepsTag ==
    /\ pc = "building"
    /\ \E how \in {"returned", "error chunk", "BuildError"} :
        /\ how = "error chunk" => \E chunk \in BuildChunks : OnChunk(chunk) = "raise"
        /\ LET ok == how = "returned"
           IN  /\ calls' = EndedBuild(how) \o
                           (IF ok THEN <<>> ELSE <<LogCall("error", "build failed")>>)
               /\ Emit(ImageBuildEnd(IF ok THEN "SUCCESS" ELSE "FAILURE"))
               /\ docker_image' = Recipe.tag
    /\ pc' = "prepared"
    /\ UNCHANGED <<inputs, exception, debug, container_id, final_status, step_idx,
                   daemon, ghost>>

\* mutant: an error chunk is skipped and the build sequence goes on to its end
Build_End_ErrorSkipped ==
    /\ pc = "building"
    /\ \E how \in {"returned", "error chunk", "BuildError"} :
        /\ how = "error chunk" => \E chunk \in BuildChunks : OnChunk(chunk) = "raise"
        /\ LET ok == how # "BuildError"
           IN  /\ calls' = EndedBuild(how) \o
                           (IF ok THEN <<>> ELSE <<LogCall("error", "build failed")>>)
               /\ Emit(ImageBuildEnd(IF ok THEN "SUCCESS" ELSE "FAILURE"))
               /\ docker_image' = (IF ok THEN Recipe.tag ELSE None)
    /\ pc' = "prepared"
    /\ UNCHANGED <<inputs, exception, debug, container_id, final_status, step_idx,
                   daemon, ghost>>

\* the build generator ends, or raises DockerError for an error chunk
\* (docker.py 239-240) or for a BuildError or APIError of the client
\* (docker.py 242-245); services.py 394-399
Build_End ==
    /\ pc = "building"
    /\ \E how \in {"returned", "error chunk", "BuildError"} :
        /\ how = "error chunk" => \E chunk \in BuildChunks : OnChunk(chunk) = "raise"
        /\ LET ok == how = "returned"
           IN  /\ calls' = EndedBuild(how) \o
                           (IF ok THEN <<>> ELSE <<LogCall("error", "build failed")>>)
               /\ Emit(ImageBuildEnd(IF ok THEN "SUCCESS" ELSE "FAILURE"))
               /\ docker_image' = (IF ok THEN Recipe.tag ELSE None)
    /\ pc' = "prepared"
    /\ UNCHANGED <<inputs, exception, debug, container_id, final_status, step_idx,
                   daemon, ghost>>

\* mutant: the image is pulled whatever image_exists answered
Registry_Prepare_AlwaysPulls ==
    /\ pc = "prepare"
    /\ ~Truthy(config.docker.dockerfile)
    /\ Truthy(config.docker.image)
    /\ \E how \in {"cached", "missing", "exists_error"} :
        /\ calls' = calls \o
             (CASE how = "cached" -> <<ExistsCall(config.docker.image, "True")>>
                [] how = "missing" -> <<ExistsCall(config.docker.image, "False")>>
                [] how = "exists_error" ->
                     <<ExistsCall(config.docker.image, "DockerError"),
                       LogCall("warning", "could not check image")>>)
        /\ Emit(ImagePullStart(config.docker.image))
        /\ pc' = "pulling"
        /\ UNCHANGED docker_image
    /\ UNCHANGED <<inputs, exception, debug, container_id, final_status, step_idx,
                   daemon, ghost>>

\* mutant: a DockerError of image_exists ends the preparation with no image
Registry_Prepare_FatalCheck ==
    /\ pc = "prepare"
    /\ ~Truthy(config.docker.dockerfile)
    /\ Truthy(config.docker.image)
    /\ \E how \in {"cached", "missing", "exists_error"} :
        /\ calls' = calls \o
             (CASE how = "cached" -> <<ExistsCall(config.docker.image, "True")>>
                [] how = "missing" -> <<ExistsCall(config.docker.image, "False")>>
                [] how = "exists_error" ->
                     <<ExistsCall(config.docker.image, "DockerError"),
                       LogCall("warning", "could not check image")>>)
        /\ IF how = "missing"
           THEN /\ Emit(ImagePullStart(config.docker.image))
                /\ pc' = "pulling"
                /\ UNCHANGED docker_image
           ELSE /\ docker_image' = (IF how = "cached" THEN config.docker.image ELSE None)
                /\ pc' = "prepared"
                /\ at_yield' = FALSE
                /\ UNCHANGED events
    /\ UNCHANGED <<inputs, exception, debug, container_id, final_status, step_idx,
                   daemon, ghost>>

\* _prepare_from_registry up to its first yield or return (405-412)
Registry_Prepare ==
    /\ pc = "prepare"
    /\ ~Truthy(config.docker.dockerfile)
    /\ Truthy(config.docker.image)
    /\ \E how \in {"cached", "missing", "exists_error"} :
        /\ calls' = calls \o
             (CASE how = "cached" -> <<ExistsCall(config.docker.image, "True")>>
                [] how = "missing" -> <<ExistsCall(config.docker.image, "False")>>
                [] how = "exists_error" ->
                     <<ExistsCall(config.docker.image, "DockerError"),
                       LogCall("warning", "could not check image")>>)
        /\ IF how = "cached"
           THEN /\ docker_image' = config.docker.image
                /\ pc' = "prepared"
                /\ at_yield' = FALSE
                /\ UNCHANGED events
           ELSE /\ Emit(ImagePullStart(config.docker.image))
                /\ pc' = "pulling"
                /\ UNCHANGED docker_image
    /\ UNCHANGED <<inputs, exception, debug, container_id, final_status, step_idx,
                   daemon, ghost>>

\* mutant: a pull that succeeds is not reported
Pull_End_Silent ==
    /\ pc = "pulling"
    /\ \E ok \in BOOLEAN :
        /\ calls' = calls \o <<DockerCall("pull_image", <<config.docker.image>>)>> \o
                    (IF ok THEN <<>> ELSE <<LogCall("error", "pull failed")>>)
        /\ IF ok
           THEN UNCHANGED events /\ at_yield' = FALSE
           ELSE Emit(ImagePullEnd("FAILURE"))
        /\ docker_image' = (IF ok THEN config.docker.image ELSE None)
    /\ pc' = "prepared"
    /\ UNCHANGED <<inputs, exception, debug, container_id, final_status, step_idx,
                   daemon, ghost>>

\* pull_image is drained, or raises DockerError (413-421)
Pull_End ==
    /\ pc = "pulling"
    /\ \E ok \in BOOLEAN :
        /\ calls' = calls \o <<DockerCall("pull_image", <<config.docker.image>>)>> \o
                    (IF ok THEN <<>> ELSE <<LogCall("error", "pull failed")>>)
        /\ Emit(ImagePullEnd(IF ok THEN "SUCCESS" ELSE "FAILURE"))
        /\ docker_image' = (IF ok THEN config.docker.image ELSE None)
    /\ pc' = "prepared"
    /\ UNCHANGED <<inputs, exception, debug, container_id, final_status, step_idx,
                   daemon, ghost>>


(***************************************************************************)
(* The step loops of _run_pipeline_standard (176-206) and                  *)
(* _run_pipeline_debug (214-265).                                          *)
(***************************************************************************)
\* mutant: the loop walks the steps from the last declared to the first
CurrentStep_Reversed == config.steps[Len(config.steps) + 1 - step_idx]

CurrentStep == config.steps[step_idx]
TransientId == TransientIds[step_idx]
Frames == [stream : Streams, line : {"out"}]
TotalFrames == Cardinality({k \in 1..Len(events) : events[k].type = "LogLine"})

\* mutant: every non-zero exit code is a failure
Classify_IgnoreCritical(exit_code, critical) ==
    IF exit_code = 0 THEN "SUCCESS" ELSE "FAILURE"

\* status of a step that ended with an exit code (194-204, 249-259)
Classify(exit_code, critical) ==
    IF exit_code = 0 THEN "SUCCESS"
    ELSE IF critical THEN "FAILURE"
    ELSE "WARNING"

\* mutant: final_status = status, whatever it was
Accumulate_Overwrite(final, status) == status

\* final_status after a step of the given status (199, 202-203, 246, 255, 257-258)
Accumulate(final, status) ==
    CASE status = "FAILURE" -> "FAILURE"
      [] status = "WARNING" -> (IF final # "FAILURE" THEN "WARNING" ELSE final)
      [] OTHER -> final

\* `if not docker_image: yield PipelineEnd(FAILURE); return` (176-178, 214-216)
Prepared_NoImage ==
    /\ pc = "prepared"
    /\ docker_image = None
    /\ Emit(PipelineEnd("FAILURE"))
    /\ pc' = "ended"
    /\ UNCHANGED <<inputs, exception, calls, locals, daemon, ghost>>

\* final_status = "SUCCESS"; for step in config.steps (180-181)
Standard_Enter ==
    /\ pc = "prepared"
    /\ docker_image # None
    /\ ~debug
    /\ final_status' = "SUCCESS"
    /\ step_idx' = 1
    /\ pc' = "loop"
    /\ at_yield' = FALSE
    /\ UNCHANGED <<inputs, exception, events, calls, debug, docker_image,
                   container_id, daemon, ghost>>

StartCall == DockerCall("start_persistent_container", <<docker_image>>)
\* the call with what it gave: the container id, or DockerError
StartCreated == [StartCall EXCEPT !.result = PersistentId]
StartFailed == [StartCall EXCEPT !.result = "DockerError"]

\* mutant: a failed start is followed by a cleanup call
Debug_StartPersistent_CleansUp ==
    /\ pc = "prepared"
    /\ docker_image # None
    /\ debug
    /\ \E ok \in BOOLEAN :
        /\ calls' = calls \o
             (IF ok THEN <<StartCreated>>
                    ELSE <<StartFailed,
                           LogCall("error", "failed to start debug container"),
                           DockerCall("stop_and_remove_container", <<None>>)>>)
        /\ IF ok
           THEN /\ container_id' = PersistentId
                /\ containers' = containers \cup {PersistentId}
                /\ final_status' = "SUCCESS"
                /\ step_idx' = 1
                /\ pc' = "loop"
                /\ at_yield' = FALSE
                /\ UNCHANGED events
           ELSE /\ Emit(PipelineEnd("FAILURE"))
                /\ pc' = "ended"
                /\ UNCHANGED <<container_id, containers, final_status, step_idx>>
    /\ UNCHANGED <<inputs, exception, debug, docker_image, removals, ghost>>

\* start_persistent_container returns an id, or raises DockerError (218-229)
Debug_StartPersistent ==
    /\ pc = "prepared"
    /\ docker_image # None
    /\ debug
    /\ \E ok \in BOOLEAN :
        /\ calls' = calls \o
             (IF ok THEN <<StartCreated>>
                    ELSE <<StartFailed,
                           LogCall("error", "failed to start debug container")>>)
        /\ IF ok
           THEN /\ container_id' = PersistentId
                /\ containers' = containers \cup {PersistentId}
                /\ final_status' = "SUCCESS"
                /\ step_idx' = 1
                /\ pc' = "loop"
                /\ at_yield' = FALSE
                /\ UNCHANGED events
           ELSE /\ Emit(PipelineEnd("FAILURE"))
                /\ pc' = "ended"
                /\ UNCHANGED <<container_id, containers, final_status, step_idx>>
    /\ UNCHANGED <<inputs, exception, debug, docker_image, removals, ghost>>

\* the next iteration of the loop: yield StepStart (182, 232)
Loop_StepStart ==
    /\ pc = "loop"
    /\ step_idx <= Len(config.steps)
    /\ Emit(StepStart(CurrentStep))
    /\ pc' = "step"
    /\ UNCHANGED <<inputs, exception, calls, locals, daemon, ghost>>

\* DockerService.stop_and_remove_container (docker.py 329-338): get, stop,
\* remove; an APIError of any of them is logged as a warning and swallowed
StopOutcomes == {"ok", "get_error", "stop_error", "remove_error"}
\* the call with how it went inside
StopCall(cid, how) ==
    [DockerCall("stop_and_remove_container", <<cid>>) EXCEPT !.result = how]

\* mutant: remove is attempted, and succeeds, after a failed lookup or stop
StopAndRemove_Independent(cid, how) ==
    /\ calls' = calls \o <<StopCall(cid, how)>> \o
                (IF how = "ok" THEN <<>>
                 ELSE <<LogCall("warning", "could not stop or remove container")>>)
    /\ containers' = (IF how = "remove_error" THEN containers ELSE containers \ {cid})
    /\ removals' = Append(removals, cid)

StopAndRemove(cid, how) ==
    /\ calls' = calls \o <<StopCall(cid, how)>> \o
                (IF how = "ok" THEN <<>>
                 ELSE <<LogCall("warning", "could not stop or remove container")>>)
    /\ containers' = (IF how = "ok" THEN containers \ {cid} ELSE containers)
    /\ removals' = (IF how \in {"get_error", "stop_error"}
                    THEN removals ELSE Append(removals, cid))

\* mutant: the loop's normal exit reports SUCCESS instead of final_status
Standard_Exhausted_AlwaysSuccess ==
    /\ pc = "loop"
    /\ step_idx > Len(config.steps)
    /\ ~debug
    /\ Emit(PipelineEnd("SUCCESS"))
    /\ pc' = "ended"
    /\ UNCHANGED <<inputs, exception, calls, locals, daemon, ghost>>

\* the loop is exhausted: yield PipelineEnd(final_status) (206)
Standard_Exhausted ==
    /\ pc = "loop"
    /\ step_idx > Len(config.steps)
    /\ ~debug
    /\ Emit(PipelineEnd(final_status))
    /\ pc' = "ended"
    /\ UNCHANGED <<inputs, exception, calls, locals, daemon, ghost>>

\* mutant: an API error of the cleanup leaves the finally block
Debug_Exhausted_CleanupRaises ==
    /\ pc = "loop"
    /\ step_idx > Len(config.steps)
    /\ debug
    /\ \E how \in StopOutcomes :
        IF how = "ok"
        THEN /\ StopAndRemove(container_id, how)
             /\ Emit(PipelineEnd(final_status))
             /\ pc' = "ended"
             /\ UNCHANGED exception
        ELSE /\ calls' = Append(calls, DockerCall("stop_and_remove_container",
                                                  <<container_id>>))
             /\ removals' = (IF how = "stop_error" THEN removals
                             ELSE Append(removals, container_id))
             /\ pc' = "raised"
             /\ exception' = "APIError"
             /\ at_yield' = FALSE
             /\ UNCHANGED <<events, containers>>
    /\ UNCHANGED <<inputs, locals, ghost>>

\* the loop is exhausted: finally, then yield PipelineEnd(final_status) (261-265)
Debug_Exhausted ==
    /\ pc = "loop"
    /\ step_idx > Len(config.steps)
    /\ debug
    /\ \E how \in StopOutcomes : StopAndRemove(container_id, how)
    /\ Emit(PipelineEnd(final_status))
    /\ pc' = "ended"
    /\ UNCHANGED <<inputs, exception, locals, ghost>>

\* mutant: a sequence that ends without a value counts as exit code 0
ExitCode_NoneIsZero(value) ==
    IF value = {} THEN 0 ELSE CHOOSE c \in value : TRUE

\* _stream_logs_and_get_exit_code (273-280): exit_code = e.value if e.value
\* is not None else 1
ExitCode(value) ==
    IF value = {} THEN 1 ELSE CHOOSE c \in value : TRUE

\* mutant: a critical failure does not break the loop
StepResult_NoBreak(value) ==
    LET code == ExitCode(value)
        status == Classify(code, CurrentStep.critical)
    IN  /\ outcomes' = Append(outcomes, [kind |-> "exit", code |-> code, value |-> value])
        /\ Emit(StepEnd(CurrentStep, status, code))
        /\ final_status' = Accumulate(final_status, status)
        /\ step_idx' = step_idx + 1
        /\ pc' = "loop"

\* what follows an exit code in the loop body: StepEnd, then continue or
\* stop at the yield of a critical failure (194-204, 249-259)
StepResult(value) ==
    LET code == ExitCode(value)
        status == Classify(code, CurrentStep.critical)
    IN  /\ outcomes' = Append(outcomes, [kind |-> "exit", code |-> code, value |-> value])
        /\ Emit(StepEnd(CurrentStep, status, code))
        /\ IF status = "FAILURE"
           THEN /\ pc' = "critical_failed"
                /\ UNCHANGED <<final_status, step_idx>>
           ELSE /\ final_status' = Accumulate(final_status, status)
                /\ step_idx' = step_idx + 1
                /\ pc' = "loop"

\* mutant: the error of a non-critical step is a warning and the loop goes on
StepDockerError_Softened(next_pc) ==
    /\ outcomes' = Append(outcomes, [kind |-> "DockerError", code |-> 1, value |-> {}])
    /\ IF CurrentStep.critical
       THEN /\ Emit(StepEnd(CurrentStep, "FAILURE", 1))
            /\ pc' = next_pc
            /\ UNCHANGED <<final_status, step_idx>>
       ELSE /\ Emit(StepEnd(CurrentStep, "WARNING", 1))
            /\ final_status' = Accumulate(final_status, "WARNING")
            /\ step_idx' = step_idx + 1
            /\ pc' = "loop"

\* mutant: the handler records the failure and lets the loop go on
StepDockerError_Continue(next_pc) ==
    /\ outcomes' = Append(outcomes, [kind |-> "DockerError", code |-> 1, value |-> {}])
    /\ Emit(StepEnd(CurrentStep, "FAILURE", 1))
    /\ final_status' = "FAILURE"
    /\ step_idx' = step_idx + 1
    /\ pc' = "loop"

\* `except DockerError`: yield StepEnd(FAILURE, exit_code=1) (188-190, 241-245)
StepDockerError(next_pc) ==
    /\ outcomes' = Append(outcomes, [kind |-> "DockerError", code |-> 1, value |-> {}])
    /\ Emit(StepEnd(CurrentStep, "FAILURE", 1))
    /\ pc' = next_pc
    /\ UNCHANGED <<final_status, step_idx>>

RunCall == DockerCall("run_command_in_container", <<docker_image, CurrentStep.command>>)
\* the call with what containers.run gave: the container, or an error
RunCreated == [RunCall EXCEPT !.result = TransientId]
RunFailed == [RunCall EXCEPT !.result = "DockerError"]
ExecCall == DockerCall("exec_in_container", <<container_id, CurrentStep.command>>)
StepErrorLog == LogCall("error", "infrastructure error during step")


\* finally of run_command_in_container (docker.py 207-209): container.remove
RemoveTransient(removed) ==
    /\ removals' = Append(removals, TransientId)
    /\ containers' = (IF removed THEN containers \ {TransientId} ELSE containers)

\* an APIError of container.remove leaves the finally block of the driver
\* unwrapped; `except DockerError` of the loop does not catch it
RemoveRaises(kind, value) ==
    /\ outcomes' = Append(outcomes, [kind |-> kind, code |-> ExitCode(value), value |-> value])
    /\ pc' = "raised"
    /\ exception' = "APIError"
    /\ at_yield' = FALSE
    /\ UNCHANGED <<events, calls, final_status, step_idx>>

\* _execute_step: run_command_in_container is called and resumed for the
\* first time; containers.run creates the container or raises (185, 286, 179)
Standard_Run ==
    /\ pc = "step"
    /\ ~debug
    /\ frames' = Append(frames, <<>>)
    /\ \E created \in BOOLEAN :
        IF created
        THEN /\ calls' = Append(calls, RunCreated)
             /\ containers' = containers \cup {TransientId}
             /\ pc' = "stream"
             /\ at_yield' = FALSE
             /\ UNCHANGED <<events, outcomes, final_status, step_idx>>
        ELSE /\ calls' = calls \o <<RunFailed, StepErrorLog>>
             /\ StepDockerError("std_error")
             /\ UNCHANGED containers
    /\ UNCHANGED <<inputs, exception, debug, docker_image, container_id, removals>>

\* exec_in_container is called and resumed for the first time; containers.get,
\* exec_create and exec_start succeed or raise (235-238, docker.py 302-311)
Debug_Exec ==
    /\ pc = "step"
    /\ debug
    /\ frames' = Append(frames, <<>>)
    /\ \E started \in BOOLEAN :
        IF started
        THEN /\ calls' = Append(calls, ExecCall)
             /\ pc' = "stream"
             /\ at_yield' = FALSE
             /\ UNCHANGED <<events, outcomes, final_status, step_idx>>
        ELSE /\ calls' = calls \o <<ExecCall, StepErrorLog>>
             /\ StepDockerError("dbg_error")
    /\ UNCHANGED <<inputs, exception, debug, docker_image, container_id, daemon>>

\* mutant: every frame is reported as stdout
Stream_Frame_AllStdout ==
    /\ pc = "stream"
    /\ TotalFrames < MaxFrames
    /\ \E f \in Frames :
        /\ frames' = [frames EXCEPT ![step_idx] = Append(@, f)]
        /\ Emit(LogLine(f.line, "stdout", CurrentStep.name))
    /\ UNCHANGED <<inputs, pc, exception, calls, locals, daemon, outcomes>>

\* the driver yields a frame, lifted into a LogLine (276-277)
Stream_Frame ==
    /\ pc = "stream"
    /\ TotalFrames < MaxFrames
    /\ \E f \in Frames :
        /\ frames' = [frames EXCEPT ![step_idx] = Append(@, f)]
        /\ Emit(LogLine(f.line, f.stream, CurrentStep.name))
    /\ UNCHANGED <<inputs, pc, exception, calls, locals, daemon, outcomes>>

\* mutant: the sequence returns its value and the container is left in place
Standard_StepExit_KeepsContainer ==
    /\ pc = "stream"
    /\ ~debug
    /\ \E value \in Terminals : StepResult(value)
    /\ UNCHANGED <<inputs, exception, calls, debug, docker_image, container_id,
                   daemon, frames>>

\* the generator of the transient run ends: the container is removed and
\* the sequence returns its value (docker.py 200-209)
Standard_StepExit ==
    /\ pc = "stream"
    /\ ~debug
    /\ \E value \in Terminals, removed \in BOOLEAN :
        /\ RemoveTransient(removed)
        /\ IF removed
           THEN StepResult(value) /\ UNCHANGED <<calls, exception>>
           ELSE RemoveRaises("exit, remove failed", value)
    /\ UNCHANGED <<inputs, debug, docker_image, container_id, frames>>

\* mutant: the container is removed after a normal wait only, not in finally
Standard_StepError_NoRemove ==
    /\ pc = "stream"
    /\ ~debug
    /\ calls' = Append(calls, StepErrorLog)
    /\ StepDockerError("std_error")
    /\ UNCHANGED <<inputs, exception, debug, docker_image, container_id, daemon,
                   frames>>

\* the log stream or wait raises APIError: remove, then DockerError (205-209)
Standard_StepError ==
    /\ pc = "stream"
    /\ ~debug
    /\ \E removed \in BOOLEAN :
        /\ RemoveTransient(removed)
        /\ IF removed
           THEN /\ calls' = Append(calls, StepErrorLog)
                /\ StepDockerError("std_error")
                /\ UNCHANGED exception
           ELSE RemoveRaises("DockerError, remove failed", {})
    /\ UNCHANGED <<inputs, debug, docker_image, container_id, frames>>

\* the generator of the exec ends and the sequence returns its value
\* (docker.py 317-324)
Debug_StepExit ==
    /\ pc = "stream"
    /\ debug
    /\ \E value \in Terminals : StepResult(value)
    /\ UNCHANGED <<inputs, exception, calls, debug, docker_image, container_id,
                   daemon, frames>>

\* the exec stream or exec_inspect raises APIError, or ExitCode is missing
Debug_StepError ==
    /\ pc = "stream"
    /\ debug
    /\ calls' = Append(calls, StepErrorLog)
    /\ StepDockerError("dbg_error")
    /\ UNCHANGED <<inputs, exception, debug, docker_image, container_id, daemon,
                   frames>>

\* after yield StepEnd(FAILURE) of a critical step: final_status = FAILURE,
\* break, yield PipelineEnd(final_status) (198-206)
Standard_Break ==
    /\ pc = "critical_failed"
    /\ ~debug
    /\ final_status' = Accumulate(final_status, "FAILURE")
    /\ Emit(PipelineEnd(final_status'))
    /\ pc' = "ended"
    /\ UNCHANGED <<inputs, exception, calls, debug, docker_image, container_id,
                   step_idx, daemon, ghost>>

\* after yield StepEnd(FAILURE) of the DockerError handler (191-192)
Standard_ErrorEnd ==
    /\ pc = "std_error"
    /\ Emit(PipelineEnd("FAILURE"))
    /\ pc' = "ended"
    /\ UNCHANGED <<inputs, exception, calls, locals, daemon, ghost>>

\* mutant: the shell event is yielded in standard mode as well
Debug_Shell_AnyMode ==
    /\ pc = "critical_failed"
    /\ Emit(DebugShellStarting(CurrentStep, container_id))
    /\ pc' = "shell"
    /\ UNCHANGED <<inputs, exception, calls, locals, daemon, ghost>>

\* mutant: the loop breaks without yielding the shell event
Debug_Shell_Skipped ==
    /\ pc = "critical_failed"
    /\ debug
    /\ final_status' = Accumulate(final_status, "FAILURE")
    /\ \E how \in StopOutcomes : StopAndRemove(container_id, how)
    /\ Emit(PipelineEnd(final_status'))
    /\ pc' = "ended"
    /\ UNCHANGED <<inputs, exception, debug, docker_image, container_id, step_idx,
                   ghost>>

\* mutant: the container is stopped before the shell event is yielded
Debug_Shell_StopsFirst ==
    /\ pc = "critical_failed"
    /\ debug
    /\ \E how \in StopOutcomes : StopAndRemove(container_id, how)
    /\ Emit(DebugShellStarting(CurrentStep, container_id))
    /\ pc' = "shell"
    /\ UNCHANGED <<inputs, exception, locals, ghost>>

\* after yield StepEnd(FAILURE) of a critical step: yield DebugShellStarting (254)
Debug_Shell ==
    /\ pc = "critical_failed"
    /\ debug
    /\ Emit(DebugShellStarting(CurrentStep, container_id))
    /\ pc' = "shell"
    /\ UNCHANGED <<inputs, exception, calls, locals, daemon, ghost>>

\* final_status = FAILURE; break; finally; yield PipelineEnd (255-256, 261-265)
Debug_Break ==
    /\ pc = "shell"
    /\ final_status' = Accumulate(final_status, "FAILURE")
    /\ \E how \in StopOutcomes : StopAndRemove(container_id, how)
    /\ Emit(PipelineEnd(final_status'))
    /\ pc' = "ended"
    /\ UNCHANGED <<inputs, exception, debug, docker_image, container_id, step_idx,
                   ghost>>

\* mutant: the DockerError handler of the debug loop leaves final_status
Debug_ErrorBreak_KeepsStatus ==
    /\ pc = "dbg_error"
    /\ \E how \in StopOutcomes : StopAndRemove(container_id, how)
    /\ Emit(PipelineEnd(final_status))
    /\ pc' = "ended"
    /\ UNCHANGED <<inputs, exception, locals, ghost>>

\* the same after the DockerError handler of the debug loop (246-247, 261-265)
Debug_ErrorBreak ==
    /\ pc = "dbg_error"
    /\ final_status' = Accumulate(final_status, "FAILURE")
    /\ \E how \in StopOutcomes : StopAndRemove(container_id, how)
    /\ Emit(PipelineEnd(final_status'))
    /\ pc' = "ended"
    /\ UNCHANGED <<inputs, exception, debug, docker_image, container_id, step_idx,
                   ghost>>

\* run() is resumed after its last yield and returns
Finish ==
    /\ pc = "ended"
    /\ pc' = "done"
    /\ at_yield' = FALSE
    /\ UNCHANGED <<inputs, exception, events, calls, locals, daemon, ghost>>

(***************************************************************************)
(* The consumer abandons the stream: the generator is closed where it is   *)
(* suspended (GeneratorExit at the yield), so the finally blocks around    *)
(* that yield run.                                                         *)
(***************************************************************************)
\* the yields inside `try: ... finally: stop_and_remove_container` (230-263)
InDebugTry ==
    debug /\ pc \in {"step", "stream", "loop", "critical_failed", "shell", "dbg_error"}
\* the yields at which a transient container's generator is alive (277)
InTransientRun == ~debug /\ pc = "stream"

\* mutant: the cleanup is not in a finally block, so closing skips it
Abandon_NoFinally ==
    /\ at_yield \/ pc = "created"
    /\ pc' = "closed"
    /\ at_yield' = FALSE
    /\ UNCHANGED <<inputs, exception, events, calls, locals, daemon, ghost>>

\* mutant: closing runs the finally of the debug loop only; the driver's
\* generator of the step in progress is left suspended
Abandon_DebugOnly ==
    /\ at_yield \/ pc = "created"
    /\ pc' = "closed"
    /\ at_yield' = FALSE
    /\ IF at_yield /\ InDebugTry
       THEN \E how \in StopOutcomes : StopAndRemove(container_id, how)
       ELSE UNCHANGED <<calls, daemon>>
    /\ UNCHANGED <<inputs, exception, events, locals, ghost>>

Abandon ==
    /\ at_yield \/ pc = "created"
    /\ pc' = "closed"
    /\ at_yield' = FALSE
    /\ IF at_yield /\ InDebugTry
       THEN \E how \in StopOutcomes : StopAndRemove(container_id, how)
       ELSE IF at_yield /\ InTransientRun
            THEN (\E removed \in BOOLEAN : RemoveTransient(removed)) /\ UNCHANGED calls
            ELSE UNCHANGED <<calls, daemon>>
    /\ UNCHANGED <<inputs, exception, events, locals, ghost>>

(***************************************************************************)
(* Log-stream demultiplexing (docker.py 107-163).  Bytes are numbers in    *)
(* 0..255 and a text is the sequence of the bytes that decode.             *)
(***************************************************************************)
StreamTypes == {0, 1, 2}
\* payloads: empty, one ASCII byte, an invalid byte followed by ASCII
WirePayloads == {<<>>, <<97>>, <<255, 98>>}
WireFrames == [type : StreamTypes, payload : WirePayloads]
\* what a stream that ends inside a header leaves behind
Residues == {<<>>, <<1, 0, 0>>}

\* the frame header's length field: ">L", four bytes, most significant first
BigEndian32(n) ==
    <<n \div 16777216, (n \div 65536) % 256, (n \div 256) % 256, n % 256>>

\* a frame as the daemon writes it: type, three padding bytes, length, payload
Encode(f) == <<f.type, 0, 0, 0>> \o BigEndian32(Len(f.payload)) \o f.payload

RECURSIVE WireBytes(_)
WireBytes(fs) ==
    IF fs = <<>> THEN <<>> ELSE Encode(Head(fs)) \o WireBytes(Tail(fs))

\* bytes.decode("utf-8", errors="ignore") on bytes that are ASCII or invalid:
\* the invalid ones are dropped
IsAscii(b) == b < 128
Decode(bytes) == SelectSeq(bytes, IsAscii)

\* mutant: a frame is returned as soon as its header is complete
ParseOneFrame_Partial(buf) ==
    IF Len(buf) < 8
    THEN [full |-> FALSE, frame |-> <<>>, rest |-> buf]
    ELSE LET stream_type == buf[1]
             length == ((buf[5] * 256 + buf[6]) * 256 + buf[7]) * 256 + buf[8]
             last == IF Len(buf) < 8 + length THEN Len(buf) ELSE 8 + length
         IN  [full |-> TRUE,
              frame |-> <<IF stream_type = 2 THEN "stderr" ELSE "stdout",
                          Decode(SubSeq(buf, 9, last))>>,
              rest |-> SubSeq(buf, last + 1, Len(buf))]

\* _parse_one_frame (107-140); struct.unpack of eight bytes cannot fail, so
\* the except branch (125-128) is never taken
ParseOneFrame(buf) ==
    IF Len(buf) < 8
    THEN [full |-> FALSE, frame |-> <<>>, rest |-> buf]
    ELSE LET stream_type == buf[1]
             length == ((buf[5] * 256 + buf[6]) * 256 + buf[7]) * 256 + buf[8]
         IN  IF Len(buf) < 8 + length
             THEN [full |-> FALSE, frame |-> <<>>, rest |-> buf]
             ELSE [full |-> TRUE,
                   frame |-> <<IF stream_type = 2 THEN "stderr" ELSE "stdout",
                               Decode(SubSeq(buf, 9, 8 + length))>>,
                   rest |-> SubSeq(buf, 9 + length, Len(buf))]

\* for chunk in stream_generator: buffer += chunk (149-150); the chunk is any
\* number of the bytes that are left, none included
Demux_Chunk ==
    /\ demux_pc = "for"
    /\ \E n \in 0..Len(wire) :
        /\ buffer' = buffer \o SubSeq(wire, 1, n)
        /\ wire' = SubSeq(wire, n + 1, Len(wire))
    /\ demux_pc' = "while"
    /\ UNCHANGED <<pipeline, dag, sent, residue, decoded, splits>>

\* a whole frame is in the buffer: yield it and look again (152-155)
Demux_Frame ==
    /\ demux_pc = "while"
    /\ ParseOneFrame(buffer).full
    /\ decoded' = Append(decoded, ParseOneFrame(buffer).frame)
    /\ buffer' = ParseOneFrame(buffer).rest
    /\ UNCHANGED <<pipeline, dag, sent, residue, wire, demux_pc, splits>>

\* no whole frame in the buffer: break, back to the for loop (156-158)
Demux_NeedMore ==
    /\ demux_pc = "while"
    /\ ~ParseOneFrame(buffer).full
    /\ buffer' = ParseOneFrame(buffer).rest
    /\ demux_pc' = "for"
    /\ splits' = splits \cup
            (IF buffer = <<>> \/ wire = <<>> THEN {}
             ELSE IF Len(buffer) < 8 THEN {"header"} ELSE {"payload"})
    /\ UNCHANGED <<pipeline, dag, sent, residue, wire, decoded>>

\* the stream is exhausted: what is left in the buffer is yielded as
\* stdout (160-163)
Demux_Exhausted ==
    /\ demux_pc = "for"
    /\ wire = <<>>
    /\ decoded' = IF buffer # <<>>
                  THEN Append(decoded, <<"stdout", Decode(buffer)>>)
                  ELSE decoded
    /\ demux_pc' = "done"
    /\ UNCHANGED <<pipeline, dag, sent, residue, wire, buffer, splits>>

\* no log stream is being demultiplexed
DemuxIdle ==
    /\ sent = <<>>
    /\ residue = <<>>
    /\ wire = <<>>
    /\ buffer = <<>>
    /\ decoded = <<>>
    /\ demux_pc = "idle"
    /\ splits = {}

\* _demultiplex_docker_stream was called on a stream of frames (148)
DemuxOver(Streams_, Tails) ==
    /\ sent \in Streams_
    /\ residue \in Tails
    /\ wire = WireBytes(sent) \o residue
    /\ buffer = <<>>
    /\ decoded = <<>>
    /\ demux_pc = "for"
    /\ splits = {}

(***************************************************************************)
(* Validation of the declared steps (config.py 97-146).  Only name and     *)
(* depends_on of a step are read; depends_on is a set, because the         *)
(* validator only iterates over it and tests membership.                   *)
(***************************************************************************)
DagNames == <<"a", "b", "c", "d">>
DagNameSet == {DagNames[i] : i \in DOMAIN DagNames}
Undeclared == "ghost"
DagStep(name, deps) == [name |-> name, depends_on |-> deps]
\* the depends_on lists over a set of names, at most MaxDeps entries each
Dependencies(names) == {d \in SUBSET names : Cardinality(d) <= MaxDeps}

\* step_names = {s.name for s in self.steps} (106)
NamesOf(ss) == {ss[i].name : i \in DOMAIN ss}

\* _validate_dependencies_exist (111-120): TRUE iff it raises nothing
DependenciesExist(ss) ==
    \A i \in DOMAIN ss : \A dep \in ss[i].depends_on :
        /\ dep \in NamesOf(ss)
        /\ dep # ss[i].name

\* adjacency_list = {s.name: s.depends_on for s in self.steps} (124-126):
\* of the steps that share a name, the last one gives the entry
AdjacencyList(ss) ==
    [n \in NamesOf(ss) |->
        LET last == CHOOSE i \in DOMAIN ss :
                        /\ ss[i].name = n
                        /\ \A j \in DOMAIN ss : ss[j].name = n => j <= i
        IN  ss[last].depends_on]

\* is_cyclic(node) (130-142) with the sets it updates passed along: the
\* result and `visited` after the call.  recursion_stack after a call that
\* returned False is what it was before the call.
RECURSIVE IsCyclic(_, _, _, _)
RECURSIVE VisitNeighbors(_, _, _, _)
IsCyclic(adjacency_list, node, visited, recursion_stack) ==
    VisitNeighbors(adjacency_list, adjacency_list[node],
                   visited \cup {node}, recursion_stack \cup {node})

\* the loop over adjacency_list[node] (134-139), `todo` being what is left
VisitNeighbors(adjacency_list, todo, visited, recursion_stack) ==
    IF todo = {}
    THEN [cyclic |-> FALSE, visited |-> visited]
    ELSE LET neighbor == CHOOSE n \in todo : TRUE
         IN  IF neighbor \notin visited
             THEN LET r == IsCyclic(adjacency_list, neighbor, visited, recursion_stack)
                  IN  IF r.cyclic
                      THEN r
                      ELSE VisitNeighbors(adjacency_list, todo \ {neighbor},
                                          r.visited, recursion_stack)
             ELSE IF neighbor \in recursion_stack
                  THEN [cyclic |-> TRUE, visited |-> visited]
                  ELSE VisitNeighbors(adjacency_list, todo \ {neighbor},
                                      visited, recursion_stack)

\* for name in step_names: if name not in visited and is_cyclic(name) (144-146)
RECURSIVE CircularFrom(_, _, _)
CircularFrom(adjacency_list, todo, visited) ==
    IF todo = {}
    THEN FALSE
    ELSE LET name == CHOOSE n \in todo : TRUE
         IN  IF name \in visited
             THEN CircularFrom(adjacency_list, todo \ {name}, visited)
             ELSE LET r == IsCyclic(adjacency_list, name, visited, {})
                  IN  r.cyclic \/ CircularFrom(adjacency_list, todo \ {name}, r.visited)

\* _detect_circular_dependencies (122-146): TRUE iff it raises
DetectCircularDependencies(ss) ==
    CircularFrom(AdjacencyList(ss), NamesOf(ss), {})

\* validate_dag (97-109)
ValidateDag(ss) ==
    IF ~DependenciesExist(ss) THEN "ValueError"
    ELSE IF DetectCircularDependencies(ss) THEN "ValueError"
    ELSE "accepted"

\* Configuration.model_validate runs the validator on the declared steps
Validate ==
    /\ verdict = "pending"
    /\ verdict' = ValidateDag(declared)
    /\ UNCHANGED <<pipeline, demux, declared>>

\* no configuration is under validation
DagIdle ==
    /\ declared = <<>>
    /\ verdict = "idle"

\* step lists whose i-th step is named DagNames[i],
\* each depending on up to MaxDeps of the names or on an undeclared one ...
NamedInOrder(ss) ==
    \E n \in 0..Len(DagNames) :
        \E deps \in [1..n -> Dependencies(DagNameSet \cup {Undeclared})] :
            ss = [i \in 1..n |-> DagStep(DagNames[i], deps[i])]

\* ... and lists of two or three steps named from two names
NamedFreely(ss) ==
    \E n \in 2..3 :
        ss \in [1..n -> {DagStep(name, deps) :
                            name \in {DagNames[1], DagNames[2]},
                            deps \in Dependencies({DagNames[1], DagNames[2], Undeclared})}]

\* a configuration with its steps is handed to the validator
DagOver ==
    /\ NamedInOrder(declared) \/ NamedFreely(declared)
    /\ verdict = "pending"

(***************************************************************************)
(* Specifications.                                                         *)
(***************************************************************************)
Next ==
    \/ Run_Skip
    \/ Run_Raise
    \/ Run_Proceed
    \/ Prepare_Unreachable
    \/ Dockerfile_Prepare
    \/ Build_Progress
    \/ Build_End
    \/ Registry_Prepare
    \/ Pull_End
    \/ Prepared_NoImage
    \/ Standard_Enter
    \/ Debug_StartPersistent
    \/ Loop_StepStart
    \/ Standard_Exhausted
    \/ Debug_Exhausted
    \/ Standard_Run
    \/ Debug_Exec
    \/ Stream_Frame
    \/ Standard_StepExit
    \/ Standard_StepError
    \/ Debug_StepExit
    \/ Debug_StepError
    \/ Standard_Break
    \/ Standard_ErrorEnd
    \/ Debug_Shell
    \/ Debug_Break
    \/ Debug_ErrorBreak
    \/ Finish
    \/ Abandon

\* inputs of the pipeline runs: a manual run of every step list and image
\* source in both modes, pre-commit runs with debug requested, and manual
\* runs at another log level of steps declared against their dependencies
PipelineInputs ==
    {RunInput(None, d, [pre_commit |-> TRUE, pre_push |-> TRUE],
              [present |-> FALSE, branches |-> None, commits |-> None],
              "INFO", docker, steps,
              [branch |-> "feature/x", message |-> "feat: add x"]) :
        d \in BOOLEAN, docker \in DockerConfigs, steps \in StepLists(MaxSteps)}
    \cup
    {RunInput("pre-commit", TRUE, [pre_commit |-> TRUE, pre_push |-> TRUE],
              [present |-> TRUE, branches |-> BranchPattern, commits |-> CommitPattern],
              "INFO", [image |-> "busybox:latest", dockerfile |-> None], steps, env) :
        steps \in StepLists(MaxSteps),
        env \in [branch : Branches, message : {"feat: add x", ScmFail}]}
    \cup
    {RunInput(None, d, [pre_commit |-> TRUE, pre_push |-> TRUE],
              [present |-> FALSE, branches |-> None, commits |-> None],
              "DEBUG", [image |-> "busybox:latest", dockerfile |-> None],
              LateDependency(steps),
              [branch |-> "feature/x", message |-> "feat: add x"]) :
        d \in BOOLEAN, steps \in {l \in StepLists(MaxSteps) : Len(l) >= 2}}

\* inputs of the gate runs: every hook type, flag, filter and repository
\* state, with a registry image and no declared step
GateInputs ==
    {RunInput(h, d, hooks, filters, "INFO",
              [image |-> "busybox:latest", dockerfile |-> None], <<>>, env) :
        h \in HookTypes, d \in BOOLEAN, hooks \in HookConfigs,
        filters \in FilterConfigs, env \in ScmStates}

Init == InitOver(PipelineInputs \cup GateInputs) /\ DemuxIdle /\ DagIdle
Spec == Init /\ [][Next]_vars

\* the demultiplexer alone, on every stream of up to MaxWireFrames frames,
\* whole or ending inside a header, under every chunking
NextDemux ==
    \/ Demux_Chunk
    \/ Demux_Frame
    \/ Demux_NeedMore
    \/ Demux_Exhausted

WireStreams ==
    UNION {[1..n -> WireFrames] : n \in 0..MaxWireFrames}

InitDemux ==
    /\ InitOver({CHOOSE i \in GateInputs : TRUE})
    /\ DemuxOver(WireStreams, Residues)
    /\ DagIdle
SpecDemux == InitDemux /\ [][NextDemux]_vars

\* the validator alone, on the step lists of DagOver
NextValidate == Validate

InitValidate ==
    /\ InitOver({CHOOSE i \in GateInputs : TRUE})
    /\ DemuxIdle
    /\ DagOver
SpecValidate == InitValidate /\ [][NextValidate]_vars

(***************************************************************************)
(* Vocabulary of the properties.                                           *)
(***************************************************************************)
Idx(t) == {k \in 1..Len(events) : events[k].type = t}
Count(t) == Cardinality(Idx(t))
LastEvent == events[Len(events)]
\* the consumer pulled events until the generator was exhausted or raised
Drained == pc \in {"done", "raised"}
\* the generator returned normally
Completed == pc = "done"
\* the ordinal, in the run, of the step whose StepStart is events[k]
StepOrdinal(k) == Cardinality({j \in 1..k : events[j].type = "StepStart"})
\* the ordinal of the step whose StepEnd is events[m]
EndOrdinal(m) == Cardinality({j \in 1..m : events[j].type = "StepEnd"})
StepCalls == {"run_command_in_container", "exec_in_container"}
Rank(status) ==
    CASE status = "UNSET" -> 0
      [] status = "SUCCESS" -> 1
      [] status = "WARNING" -> 2
      [] status = "FAILURE" -> 3

(***************************************************************************)
(* C1.  Every run that emits PipelineStart and is consumed to the end      *)
(* emits exactly one PipelineEnd, after every other event of the run.      *)
(* The code violates it: an image name that is set but empty passes the    *)
(* validation and reaches the safeguard of _prepare_docker_image after     *)
(* PipelineStart was yielded.                                              *)
(***************************************************************************)
C1_OnePipelineEndLast ==
    (Drained /\ Count("PipelineStart") > 0)
        => /\ Count("PipelineEnd") = 1
           /\ LastEvent.type = "PipelineEnd"

(***************************************************************************)
(* C2.  In every completed run each StepStart is the StepStart of the      *)
(* next declared step and is followed by LogLine events only, then by the  *)
(* StepEnd of the same step; those LogLine events carry the step's name    *)
(* and are the frames the driver yielded for the step, in the driver's     *)
(* order, none lost and none repeated; every LogLine and StepEnd lies in   *)
(* such a bracket, and a StepEnd that has a later StepStart is followed    *)
(* immediately by a StepStart.                                             *)
(***************************************************************************)
C2_StepBrackets ==
    Completed =>
        /\ \A k \in Idx("StepStart") :
            /\ StepOrdinal(k) <= Len(config.steps)
            /\ events[k].step = config.steps[StepOrdinal(k)]
            /\ \E m \in (k + 1)..Len(events) :
                /\ events[m].type = "StepEnd"
                /\ events[m].step = events[k].step
                /\ \A j \in (k + 1)..(m - 1) :
                    /\ events[j].type = "LogLine"
                    /\ events[j].step_name = events[k].step.name
                /\ [j \in 1..(m - k - 1) |->
                        [stream |-> events[k + j].stream,
                         line |-> events[k + j].line]]
                   = frames[StepOrdinal(k)]
        /\ \A j \in Idx("LogLine") \cup Idx("StepEnd") :
            j > 1 /\ events[j - 1].type \in {"StepStart", "LogLine"}
        /\ \A m \in Idx("StepEnd") :
            (\E k \in Idx("StepStart") : k > m)
                => events[m + 1].type = "StepStart"

\* a completed run of two steps, with frames on both streams in the first
C2_Witness ==
    /\ Completed
    /\ Count("StepEnd") = 2
    /\ Len(frames[1]) = 2
    /\ frames[1][1].stream = "stderr"
    /\ frames[1][2].stream = "stdout"

(***************************************************************************)
(* C3.  The status of PipelineEnd against the statuses of the StepEnd      *)
(* events of the run: SUCCESS iff every StepEnd is SUCCESS, FAILURE iff    *)
(* some StepEnd is FAILURE, WARNING iff none is FAILURE and some is        *)
(* WARNING.                                                                *)
(***************************************************************************)
StepStatuses == {events[k].status : k \in Idx("StepEnd")}
Aggregates(status) ==
    /\ (status = "SUCCESS") <=> (StepStatuses \subseteq {"SUCCESS"})
    /\ (status = "FAILURE") <=> ("FAILURE" \in StepStatuses)
    /\ (status = "WARNING") <=> /\ "FAILURE" \notin StepStatuses
                                /\ "WARNING" \in StepStatuses

\* C3 as stated, for every completed run that emits PipelineEnd: violated by a
\* run whose image could not be prepared, which ends in FAILURE with no
\* StepEnd at all
C3_Original ==
    (Completed /\ Count("PipelineEnd") > 0) => Aggregates(LastEvent.status)

\* C3 as amended: for the completed runs that reached the step loop (the image
\* was prepared and, in debug mode, the persistent container started)
C3_StatusAggregates ==
    (Completed /\ Count("PipelineEnd") > 0 /\ final_status # "UNSET")
        => Aggregates(LastEvent.status)

\* a completed run of a successful step and a non-critical failure
C3_Witness ==
    /\ Completed
    /\ final_status # "UNSET"
    /\ LastEvent.type = "PipelineEnd"
    /\ LastEvent.status = "WARNING"
    /\ StepStatuses = {"SUCCESS", "WARNING"}

(***************************************************************************)
(* C4.  final_status starts at SUCCESS and only moves up in the order      *)
(* SUCCESS < WARNING < FAILURE, and PipelineEnd carries its last value.    *)
(***************************************************************************)
Monotone ==
    /\ Rank(final_status') >= Rank(final_status)
    /\ (final_status = "UNSET" /\ final_status' # "UNSET")
            => final_status' = "SUCCESS"
CarriesLast ==
    \A k \in Idx("PipelineEnd") : events[k].status = final_status
\* standard mode: the driver raised DockerError in the last step run
EndedByStepError ==
    /\ ~debug
    /\ outcomes # <<>>
    /\ outcomes[Len(outcomes)].kind = "DockerError"

\* C4 as stated, read for the runs in which the accumulator exists: violated
\* by a standard-mode run whose step raises DockerError, where PipelineEnd
\* is FAILURE and the accumulator still holds SUCCESS or WARNING
C4_Original ==
    [][/\ Monotone
       /\ (final_status' # "UNSET" => CarriesLast')]_vars

\* C4 as amended: the accumulator is monotone, and PipelineEnd carries its
\* last value except in a standard-mode run ended by a DockerError of a
\* step, where PipelineEnd carries FAILURE
C4_MonotoneAccumulator ==
    [][/\ Monotone
       /\ (final_status' # "UNSET" =>
             IF EndedByStepError'
             THEN (\A k \in Idx("PipelineEnd")' : events'[k].status = "FAILURE")
             ELSE CarriesLast')]_vars

\* a completed run that went SUCCESS, WARNING, FAILURE
C4_Witness ==
    /\ Completed
    /\ final_status = "FAILURE"
    /\ "WARNING" \in StepStatuses
    /\ LastEvent.type = "PipelineEnd"
    /\ LastEvent.status = "FAILURE"

(***************************************************************************)
(* C5.  In both modes the status of a StepEnd is a function of its exit    *)
(* code and of the step's critical flag: 0 gives SUCCESS, non-zero gives   *)
(* FAILURE on a critical step and WARNING on a non-critical one.           *)
(***************************************************************************)
ByExitCode(e) ==
    /\ (e.exit_code = 0) => e.status = "SUCCESS"
    /\ (e.exit_code # 0 /\ e.step.critical) => e.status = "FAILURE"
    /\ (e.exit_code # 0 /\ ~e.step.critical) => e.status = "WARNING"

\* C5 as stated, for every StepEnd: violated by the StepEnd of a non-critical
\* step whose driver call raised DockerError (FAILURE with exit_code 1)
C5_Original ==
    \A m \in Idx("StepEnd") : ByExitCode(events[m])

\* C5 as amended: for the StepEnd of a step whose command returned an exit
\* code; the StepEnd of a step whose driver call raised DockerError is
\* FAILURE with exit_code 1 whatever the critical flag
C5_StatusByExitCode ==
    \A m \in Idx("StepEnd") :
        IF outcomes[EndOrdinal(m)].kind = "exit"
        THEN /\ events[m].exit_code = outcomes[EndOrdinal(m)].code
             /\ ByExitCode(events[m])
        ELSE /\ outcomes[EndOrdinal(m)].kind = "DockerError"
             /\ events[m].status = "FAILURE"
             /\ events[m].exit_code = 1

\* debug mode: a non-critical step exited with a non-zero code, then a
\* critical one did
C5_Witness ==
    /\ debug
    /\ Count("StepEnd") = 2
    /\ \E m \in Idx("StepEnd") :
        events[m].status = "WARNING" /\ events[m].exit_code # 0
    /\ \E m \in Idx("StepEnd") :
        /\ events[m].status = "FAILURE"
        /\ outcomes[EndOrdinal(m)].kind = "exit"

(***************************************************************************)
(* C6.  After a StepEnd with status FAILURE no step is started or run:     *)
(* the only events that follow are DebugShellStarting (debug mode) and     *)
(* PipelineEnd{FAILURE}, and no run or exec call is made on the driver     *)
(* once that StepEnd was yielded.                                          *)
(***************************************************************************)
C6_FailureStopsLoop ==
    \A m \in Idx("StepEnd") :
        events[m].status = "FAILURE" =>
            /\ \A j \in (m + 1)..Len(events) :
                \/ events[j].type = "DebugShellStarting" /\ debug
                \/ events[j].type = "PipelineEnd" /\ events[j].status = "FAILURE"
            /\ \A c \in 1..Len(calls) :
                calls[c].op \in StepCalls => calls[c].at < m
            /\ Completed => /\ LastEvent.type = "PipelineEnd"
                            /\ LastEvent.status = "FAILURE"

\* the first of two declared steps failed critically and the run completed
C6_Witness ==
    /\ Completed
    /\ Len(config.steps) = 2
    /\ Count("StepEnd") = 1
    /\ \E m \in Idx("StepEnd") :
        events[m].status = "FAILURE" /\ events[m].step = config.steps[1]

(***************************************************************************)
(* C7.  A non-critical step that exits with a non-zero code produces       *)
(* StepEnd{WARNING} and does not stop the loop: the next declared step is  *)
(* started, and a run in which no later step fails critically ends with    *)
(* PipelineEnd{WARNING}.  The code violates it: when the removal of the    *)
(* step's transient container fails, the APIError leaves run() before the  *)
(* StepEnd is yielded.                                                     *)
(***************************************************************************)
ExitedNonZero(i) ==
    /\ outcomes[i].kind \in {"exit", "exit, remove failed"}
    /\ outcomes[i].code # 0
FailsCritically(j) == config.steps[j].critical /\ outcomes[j].code # 0

C7_WarningContinues ==
    Drained =>
        \A i \in 1..Len(outcomes) :
            (ExitedNonZero(i) /\ ~config.steps[i].critical) =>
                /\ \E m \in Idx("StepEnd") :
                    EndOrdinal(m) = i /\ events[m].status = "WARNING"
                /\ i < Len(config.steps) => Count("StepStart") > i
                /\ (\A j \in (i + 1)..Len(outcomes) : ~FailsCritically(j))
                    => /\ LastEvent.type = "PipelineEnd"
                       /\ LastEvent.status = "WARNING"

(***************************************************************************)
(* C8.  A run the gate decides to skip yields no event at all (no          *)
(* PipelineStart, no PipelineEnd) and calls no operation of the container  *)
(* driver.                                                                 *)
(***************************************************************************)
DriverCalls == {c \in 1..Len(calls) : calls[c].on = "docker"}

C8_SkipIsSilent ==
    Gate.decision = "skip" => (events = <<>> /\ DriverCalls = {})

\* a hook run skipped on its branch, after the probe, and returned
C8_Witness ==
    /\ Completed
    /\ Gate.decision = "skip"
    /\ \E c \in 1..Len(calls) : calls[c].op = "get_current_branch"
    /\ events = <<>>

(***************************************************************************)
(* C9.  A run proceeds exactly when it is manual (no hook type), or the    *)
(* hook's flag is enabled, and filters.branches is unset or matches the    *)
(* current branch at its start, and, for a pre-commit hook only,           *)
(* filters.commits is unset or matches the commit message; otherwise it    *)
(* is skipped.  The commits filter never makes a pre-push run skip.        *)
(***************************************************************************)
HookFlag ==
    \/ hook_type = "pre-commit" /\ config.hooks.pre_commit
    \/ hook_type = "pre-push" /\ config.hooks.pre_push
BranchAdmits ==
    \/ ~config.filters.present
    \/ config.filters.branches = None
    \/ ReMatch(config.filters.branches, scm.branch)
CommitAdmits ==
    \/ ~config.filters.present
    \/ config.filters.commits = None
    \/ ReMatch(config.filters.commits, scm.message)
ShouldProceed ==
    \/ hook_type = None
    \/ /\ HookFlag
       /\ BranchAdmits
       /\ (hook_type = "pre-commit" => CommitAdmits)
Proceeded == events # <<>>
Skipped == Completed /\ events = <<>>
ProbeFailed == pc = "raised" /\ exception = "GitCommandError"

C9_GateDecision ==
    /\ Proceeded => ShouldProceed
    /\ Skipped => ~ShouldProceed
    /\ pc \notin {"created", "closed"} => (Proceeded \/ Skipped \/ ProbeFailed)
    /\ (ProbeFailed /\ events = <<>>) => ScmFail \in {scm.branch, scm.message}

\* a pre-push run proceeded although the commits filter rejects the message
C9_Witness ==
    /\ hook_type = "pre-push"
    /\ Proceeded
    /\ config.filters.present
    /\ config.filters.commits = CommitPattern
    /\ scm.message \notin {ScmFail, ""}
    /\ ~ReMatch(CommitPattern, scm.message)

(***************************************************************************)
(* C10.  Debug mode, once the persistent container is started: when the    *)
(* run is over (the loop completed, a step failed critically, the driver   *)
(* raised during a step, or the consumer abandoned the run at an event     *)
(* emitted after the start) stop_and_remove_container has been called      *)
(* exactly once, with the id start_persistent_container returned; it is    *)
(* never called more than once nor with another id.                        *)
(***************************************************************************)
StopCalls == {c \in 1..Len(calls) : calls[c].op = "stop_and_remove_container"}
\* the run is over: PipelineEnd was yielded, the generator returned or
\* raised, or the consumer closed it
Over == pc \in {"ended", "done", "raised", "closed"}

C10_DebugCleanupOnce ==
    /\ Cardinality(StopCalls) <= 1
    /\ \A c \in StopCalls :
        /\ debug
        /\ container_id # None
        /\ calls[c].args = <<container_id>>
    /\ (container_id # None /\ Over)
        => Cardinality(StopCalls) = 1

\* the consumer abandoned a debug run while a step's output was streaming
C10_Witness ==
    /\ pc = "closed"
    /\ container_id # None
    /\ LastEvent.type = "LogLine"
    /\ Cardinality(StopCalls) = 1

(***************************************************************************)
(* C11.  DebugShellStarting is emitted at most once per run, only in a     *)
(* manual debug run, and only immediately after the StepEnd{FAILURE} of a  *)
(* critical step; it carries that step and the id                          *)
(* start_persistent_container returned, and the only event after it is     *)
(* PipelineEnd{FAILURE}.                                                   *)
(***************************************************************************)
C11_DebugShellPlacement ==
    /\ Count("DebugShellStarting") <= 1
    /\ \A k \in Idx("DebugShellStarting") :
        /\ debug /\ debug_arg /\ ~Truthy(hook_type)
        /\ k > 1
        /\ events[k - 1].type = "StepEnd"
        /\ events[k - 1].status = "FAILURE"
        /\ events[k - 1].step.critical
        /\ events[k].step = events[k - 1].step
        /\ container_id = PersistentId
        /\ events[k].container_id = container_id
        /\ \E c \in 1..Len(calls) :
            calls[c].op = "start_persistent_container" /\ calls[c].at < k
        /\ Len(events) <= k + 1
        /\ Len(events) = k + 1 => events[k + 1] = PipelineEnd("FAILURE")
        /\ Completed => Len(events) = k + 1

\* a completed debug run whose second step failed critically
C11_Witness ==
    /\ Completed
    /\ Count("DebugShellStarting") = 1
    /\ Count("StepEnd") = 2
    /\ LastEvent = PipelineEnd("FAILURE")

(***************************************************************************)
(* C12.  Debug mode: whenever a critical step ends with StepEnd{FAILURE},  *)
(* the next event is DebugShellStarting for that step and the persistent   *)
(* container's id, and PipelineEnd comes after it.                         *)
(***************************************************************************)
ShellFollows(m) ==
    /\ m < Len(events) => events[m + 1] = DebugShellStarting(events[m].step, container_id)
    /\ pc \in {"ended", "done"} => /\ Len(events) = m + 2
                                   /\ LastEvent.type = "PipelineEnd"

\* C12 as stated, for every StepEnd{FAILURE} of a critical step in debug
\* mode: violated by a critical step whose exec raised DockerError, whose
\* StepEnd{FAILURE, exit_code=1} is followed by PipelineEnd directly
C12_Original ==
    debug => \A m \in Idx("StepEnd") :
        (events[m].status = "FAILURE" /\ events[m].step.critical) => ShellFollows(m)

\* C12 as amended: for the critical steps whose command returned a non-zero
\* exit code; after the StepEnd{FAILURE} of a DockerError no
\* DebugShellStarting is emitted
C12_ShellAfterCriticalExit ==
    debug => \A m \in Idx("StepEnd") :
        events[m].status = "FAILURE" =>
            IF outcomes[EndOrdinal(m)].kind = "exit"
            THEN events[m].step.critical /\ ShellFollows(m)
            ELSE /\ Count("DebugShellStarting") = 0
                 /\ m < Len(events) => /\ Len(events) = m + 1
                                       /\ LastEvent = PipelineEnd("FAILURE")

\* debug mode: the first step failed critically after printing a line
C12_Witness ==
    /\ Completed
    /\ debug
    /\ Count("LogLine") = 1
    /\ \E m \in Idx("StepEnd") :
        /\ events[m].status = "FAILURE"
        /\ events[m].exit_code = 2
        /\ events[m + 1].type = "DebugShellStarting"

(***************************************************************************)
(* C13.  Every container run_command_in_container created has              *)
(* container.remove invoked on it exactly once when the operation ends:    *)
(* after an exit code, after an exception while streaming or waiting, and  *)
(* when the consumer cancels the log sequence; not before the operation    *)
(* ends; and when the creation failed no removal is attempted.             *)
(***************************************************************************)
RunCalls == {c \in 1..Len(calls) : calls[c].op = "run_command_in_container"}
\* the ordinal of the step that made calls[c]
RunOrdinal(c) == Cardinality({d \in RunCalls : d <= c})
Removals(id) == Cardinality({k \in 1..Len(removals) : removals[k] = id})
\* the operation of step i is over: its generator returned or raised, or
\* was closed with the run
OperationEnded(i) == i <= Len(outcomes) \/ pc = "closed"

C13_TransientRemovedOnce ==
    \A c \in RunCalls :
        LET i == RunOrdinal(c)
        IN  IF calls[c].result = "DockerError"
            THEN Removals(TransientIds[i]) = 0
            ELSE /\ calls[c].result = TransientIds[i]
                 /\ Removals(TransientIds[i]) = (IF OperationEnded(i) THEN 1 ELSE 0)
                 /\ ~OperationEnded(i) => TransientIds[i] \in containers

\* step 1 returned an exit code, step 2 was cancelled while streaming
C13_Witness ==
    /\ pc = "closed"
    /\ ~debug
    /\ Len(outcomes) = 1
    /\ outcomes[1].kind = "exit"
    /\ Cardinality(RunCalls) = 2
    /\ removals = <<TransientIds[1], TransientIds[2]>>

(***************************************************************************)
(* C14.  When the consumer abandons the stream at any event, in either     *)
(* mode, no container the run created outlives the run.                    *)
(***************************************************************************)
CleanupWarnings ==
    {c \in 1..Len(calls) :
        /\ calls[c].on = "logger"
        /\ calls[c].args = <<"could not stop or remove container">>}

\* C14 as stated, on the daemon's containers: violated when the daemon
\* answers the cleanup of the abandoned run with an API error (for the
\* persistent container a failing stop leaves remove uncalled)
C14_Original ==
    pc = "closed" => containers = {}

\* C14 as amended: the cleanup of every container the run created has been
\* invoked exactly once (container.remove for a transient container,
\* stop_and_remove_container for the persistent one), and a container is
\* left only where the daemon failed that cleanup
C14_AbandonCleansUp ==
    pc = "closed" =>
        /\ \A c \in RunCalls :
            calls[c].result # "DockerError" => Removals(calls[c].result) = 1
        /\ container_id # None =>
            /\ Cardinality(StopCalls) = 1
            /\ \A c \in StopCalls : calls[c].args = <<container_id>>
        /\ \A id \in containers :
            IF id = container_id
            THEN Cardinality(CleanupWarnings) = 1
            ELSE Removals(id) = 1
        /\ (CleanupWarnings = {} /\ container_id # None) => container_id \notin containers

\* a standard-mode run abandoned while the second step was streaming, with
\* nothing left in the daemon
C14_Witness ==
    /\ pc = "closed"
    /\ ~debug
    /\ Cardinality(RunCalls) = 2
    /\ LastEvent.type = "LogLine"
    /\ Len(outcomes) = 1
    /\ containers = {}

(***************************************************************************)
(* C15.  A failure to remove the transient container does not propagate:   *)
(* the run goes on as if the removal had succeeded, every step whose       *)
(* generator ended has its StepEnd with the status of its exit code, and   *)
(* no exception leaves run().  The code violates it: container.remove is   *)
(* called bare in the finally block of run_command_in_container, so its    *)
(* APIError leaves the driver and the orchestrator unlogged.               *)
(***************************************************************************)
TransientRemovalFailed ==
    \E id \in containers : id # container_id /\ Removals(id) > 0

C15_RemovalFailureContained ==
    (TransientRemovalFailed /\ pc # "closed") =>
        /\ exception = None
        /\ pc # "raised"
        /\ Count("StepEnd") = Len(outcomes)

(***************************************************************************)
(* C16.  stop_and_remove_container never propagates an API error of the    *)
(* lookup, stop or removal and logs one warning instead; a debug run       *)
(* whose cleanup fails still ends with PipelineEnd carrying the final      *)
(* status computed from the steps.                                         *)
(***************************************************************************)
\* the cleanup was called and the persistent container is still there
CleanupFailed == StopCalls # {} /\ container_id \in containers

C16_CleanupFailureSwallowed ==
    /\ CleanupFailed <=> CleanupWarnings # {}
    /\ Cardinality(CleanupWarnings) <= 1
    /\ \A w \in CleanupWarnings : w - 1 \in StopCalls
    /\ CleanupFailed =>
        /\ exception = None
        /\ pc # "raised"
        /\ pc # "closed" =>
            /\ LastEvent.type = "PipelineEnd"
            /\ LastEvent.status = final_status
            /\ Aggregates(LastEvent.status)

\* a completed debug run of a warning step whose cleanup failed
C16_Witness ==
    /\ Completed
    /\ CleanupFailed
    /\ Count("StepEnd") = 2
    /\ LastEvent = PipelineEnd("WARNING")

(***************************************************************************)
(* C17.  When a driver call raises DockerError while a step is executing   *)
(* (run_command_in_container in standard mode, exec_in_container in debug  *)
(* mode, a missing exec exit code included), StepEnd{FAILURE, exit_code=1} *)
(* is emitted for that step, no further step is started or run, the only   *)
(* event that follows is PipelineEnd{FAILURE}, and no exception leaves     *)
(* run().                                                                  *)
(***************************************************************************)
\* the index in events of the StepEnd of step i
EndOf(i) == CHOOSE m \in Idx("StepEnd") : EndOrdinal(m) = i

C17_StepErrorEndsRun ==
    \A i \in 1..Len(outcomes) :
        outcomes[i].kind = "DockerError" =>
            /\ i = Len(outcomes)
            /\ exception = None
            /\ pc # "raised"
            /\ Count("StepStart") = i
            /\ Count("StepEnd") = i
            /\ events[EndOf(i)] = StepEnd(config.steps[i], "FAILURE", 1)
            /\ Len(events) <= EndOf(i) + 1
            /\ Len(events) = EndOf(i) + 1 => LastEvent = PipelineEnd("FAILURE")
            /\ pc \in {"ended", "done"} => Len(events) = EndOf(i) + 1
            /\ \A c \in 1..Len(calls) :
                calls[c].op \in StepCalls => calls[c].at < EndOf(i)

\* debug mode: the exec of the first of two non-critical steps raised
\* after a line of output, and the run completed
C17_Witness ==
    /\ Completed
    /\ debug
    /\ Len(config.steps) = 2
    /\ ~config.steps[1].critical
    /\ Len(outcomes) = 1
    /\ outcomes[1].kind = "DockerError"
    /\ Len(frames[1]) = 1
    /\ LastEvent = PipelineEnd("FAILURE")

(***************************************************************************)
(* C18.  When pull_image or build_image raises DockerError,                *)
(* ImagePullEnd{FAILURE} (resp. ImageBuildEnd{FAILURE}) is emitted and is  *)
(* followed immediately by PipelineEnd{FAILURE}, which ends the run; no    *)
(* StepStart is emitted and no step is run nor persistent container        *)
(* started, in both modes.                                                 *)
(***************************************************************************)
Logged(msg) == \E c \in 1..Len(calls) : calls[c].on = "logger" /\ calls[c].args = <<msg>>
Called(op) == {c \in 1..Len(calls) : calls[c].op = op}
PrepareEnds == Idx("ImagePullEnd") \cup Idx("ImageBuildEnd")
FailedPrepareEnds == {k \in PrepareEnds : events[k].status = "FAILURE"}

C18_PrepareErrorEndsRun ==
    /\ Logged("pull failed") <=>
            (\E k \in Idx("ImagePullEnd") : events[k].status = "FAILURE")
    /\ Logged("build failed") <=>
            (\E k \in Idx("ImageBuildEnd") : events[k].status = "FAILURE")
    /\ \A k \in FailedPrepareEnds :
        /\ exception = None
        /\ pc # "raised"
        /\ Count("StepStart") = 0
        /\ Called("run_command_in_container") = {}
        /\ Called("exec_in_container") = {}
        /\ Called("start_persistent_container") = {}
        /\ Len(events) <= k + 1
        /\ Len(events) = k + 1 => LastEvent = PipelineEnd("FAILURE")
        /\ pc \in {"ended", "done"} => Len(events) = k + 1

\* a debug run of two steps whose image build failed after a progress line
C18_Witness ==
    /\ Completed
    /\ debug
    /\ Len(config.steps) = 2
    /\ Count("ImageBuildProgress") = 1
    /\ \E k \in Idx("ImageBuildEnd") : events[k].status = "FAILURE"
    /\ LastEvent = PipelineEnd("FAILURE")

(***************************************************************************)
(* C19.  On a cache hit (image_exists answers true for the recipe tag or   *)
(* for the registry reference) the preparation emits none of the           *)
(* ImageBuild and ImagePull events, neither build_image nor pull_image is  *)
(* called, and every step is run against exactly that tag or reference.    *)
(***************************************************************************)
CacheHit == \E c \in Called("image_exists") : calls[c].result = "True"
ImageRef ==
    IF Truthy(config.docker.dockerfile) THEN Recipe.tag ELSE config.docker.image
PrepareEvents ==
    {"ImageBuildStart", "ImageBuildProgress", "ImageBuildEnd",
     "ImagePullStart", "ImagePullEnd"}

C19_CacheHitIsSilent ==
    CacheHit =>
        /\ \A k \in 1..Len(events) : events[k].type \notin PrepareEvents
        /\ Called("build_image") = {}
        /\ Called("pull_image") = {}
        /\ Called("count_dockerfile_steps") = {}
        /\ \A c \in Called("image_exists") : calls[c].args = <<ImageRef>>
        /\ docker_image = ImageRef
        /\ \A c \in Called("run_command_in_container") : calls[c].args[1] = ImageRef
        /\ \A c \in Called("start_persistent_container") : calls[c].args = <<ImageRef>>
        /\ Len(events) >= 2 => events[2].type \in {"StepStart", "PipelineEnd"}

\* a completed standard run of two steps on a cached recipe image
C19_Witness ==
    /\ Completed
    /\ CacheHit
    /\ Truthy(config.docker.dockerfile)
    /\ Cardinality(Called("run_command_in_container")) = 2
    /\ Count("StepEnd") = 2

(***************************************************************************)
(* C20.  Registry image: a DockerError of image_exists is not fatal.  The  *)
(* run goes on as on a cache miss: a warning is logged, ImagePullStart is  *)
(* emitted, pull_image is called exactly once, and the run's result        *)
(* depends on the pull and the steps only.                                 *)
(***************************************************************************)
CheckFailed ==
    /\ ~Truthy(config.docker.dockerfile)
    /\ \E c \in Called("image_exists") : calls[c].result = "DockerError"
Pulled == \E k \in Idx("ImagePullEnd") : events[k].status = "SUCCESS"

C20_CheckErrorNotFatal ==
    CheckFailed =>
        /\ exception # "DockerError"
        /\ Logged("could not check image")
        /\ Len(events) >= 2
        /\ events[2] = ImagePullStart(config.docker.image)
        /\ Cardinality(Called("pull_image")) <= 1
        /\ pc \notin {"pulling", "closed"} =>
            /\ Cardinality(Called("pull_image")) = 1
            /\ Count("ImagePullEnd") = 1
            /\ events[3].type = "ImagePullEnd"
        /\ Pulled => docker_image = config.docker.image
        /\ (Pulled /\ Completed /\ final_status # "UNSET")
                => Aggregates(LastEvent.status)
        /\ (~Pulled /\ Completed)
                => /\ LastEvent = PipelineEnd("FAILURE")
                   /\ Logged("pull failed")
                   /\ Len(events) = 4

\* the check failed, the pull succeeded and both steps passed
C20_Witness ==
    /\ Completed
    /\ CheckFailed
    /\ Pulled
    /\ Count("StepEnd") = 2
    /\ LastEvent = PipelineEnd("SUCCESS")

(***************************************************************************)
(* C21.  A run given a hook type together with debug = true executes in    *)
(* standard mode: start_persistent_container, exec_in_container and        *)
(* stop_and_remove_container are never called, DebugShellStarting is       *)
(* never emitted, and each step runs in a transient container of its own.  *)
(***************************************************************************)
HookWithDebug == debug_arg /\ Truthy(hook_type)

C21_HookRunsStandard ==
    HookWithDebug =>
        /\ Called("start_persistent_container") = {}
        /\ Called("exec_in_container") = {}
        /\ Called("stop_and_remove_container") = {}
        /\ Count("DebugShellStarting") = 0
        /\ container_id = None
        /\ Proceeded => ~debug
        /\ Cardinality(RunCalls) = Len(frames)
        /\ \A c, d \in RunCalls :
            (c # d /\ calls[c].result # "DockerError") => calls[c].result # calls[d].result

\* a completed pre-commit run with debug requested: two steps, two containers
C21_Witness ==
    /\ Completed
    /\ HookWithDebug
    /\ Count("StepEnd") = 2
    /\ removals = <<TransientIds[1], TransientIds[2]>>

(***************************************************************************)
(* C22.  When a hook type and debug are both supplied, the warning is      *)
(* logged and debug forced off before the filter gate is evaluated: once   *)
(* the gate has been evaluated the warning has been logged, ahead of the   *)
(* gate's probes.  The code violates it: run() calls _should_run first     *)
(* and reaches the warning only when the gate lets the run proceed.        *)
(***************************************************************************)
GateEvaluated == pc \notin {"created", "closed"} \/ events # <<>>
ModeWarnings ==
    {c \in 1..Len(calls) :
        /\ calls[c].on = "logger"
        /\ calls[c].args = <<"debug not supported for hook runs">>}

C22_WarningBeforeGate ==
    (HookWithDebug /\ GateEvaluated) =>
        /\ Cardinality(ModeWarnings) = 1
        /\ \A w \in ModeWarnings : \A c \in 1..Len(calls) :
            calls[c].on = "scm" => w < c

(***************************************************************************)
(* C23.  When a source-control probe fails while the gate is evaluated,    *)
(* the error leaves run(): no PipelineStart nor any other event is         *)
(* emitted and no operation of the container driver is called.             *)
(***************************************************************************)
C23_ProbeErrorPropagates ==
    (Gate.decision = "raise" /\ GateEvaluated) =>
        /\ pc = "raised"
        /\ exception = "GitCommandError"
        /\ events = <<>>
        /\ DriverCalls = {}
        /\ calls # <<>>
        /\ calls[Len(calls)].on = "scm"

\* the branch matched and the probe of the staged commit message failed
C23_Witness ==
    /\ pc = "raised"
    /\ exception = "GitCommandError"
    /\ scm.message = ScmFail
    /\ Len(calls) = 2
    /\ calls[2].op = "get_staged_commit_message"

(***************************************************************************)
(* C24.  A run that fails with a configuration error, the safeguard of     *)
(* image preparation included, has emitted no event before the error.      *)
(* The code violates it: the safeguard of _prepare_docker_image is         *)
(* reached after PipelineStart was yielded.                                *)
(***************************************************************************)
C24_ConfigErrorBeforeEvents ==
    exception = "ConfigurationParseError" => events = <<>>

(***************************************************************************)
(* C25.  In every run that passes the gate, PipelineStart is emitted       *)
(* exactly once, as the first event and before any call on the container   *)
(* driver, and carries total_steps = the number of declared steps and the  *)
(* configured log level.                                                   *)
(***************************************************************************)
C25_PipelineStartFirst ==
    (Gate.decision = "proceed" /\ GateEvaluated) =>
        /\ events # <<>>
        /\ events[1].type = "PipelineStart"
        /\ events[1].total_steps = Len(config.steps)
        /\ events[1].log_level = config.log_level
        /\ Count("PipelineStart") = 1
        /\ \A c \in DriverCalls : calls[c].at >= 1

\* a completed run at log level DEBUG with two declared steps
C25_Witness ==
    /\ Completed
    /\ Len(config.steps) = 2
    /\ config.log_level = "DEBUG"
    /\ events[1].log_level = "DEBUG"
    /\ events[1].total_steps = 2
    /\ \E c \in Called("image_exists") : calls[c].at = 1

(***************************************************************************)
(* C26.  Steps are started in declaration order whatever depends_on says:  *)
(* the steps of the StepStart events form a prefix of config.steps, each   *)
(* step is started at most once, and the prefix is the whole list          *)
(* whenever no StepEnd{FAILURE} occurs.                                    *)
(***************************************************************************)
\* the index in events of the i-th StepStart
StartOf(i) == CHOOSE k \in Idx("StepStart") : StepOrdinal(k) = i
StartedSteps == [i \in 1..Count("StepStart") |-> events[StartOf(i)].step]
StartedInOrder ==
    /\ Count("StepStart") <= Len(config.steps)
    /\ StartedSteps = SubSeq(config.steps, 1, Count("StepStart"))
    /\ \A i, j \in 1..Count("StepStart") :
        i # j => StartedSteps[i].name # StartedSteps[j].name

\* C26 as stated, the last part read on completed runs: violated by a run
\* whose image could not be prepared, which has no StepEnd{FAILURE} and
\* starts no step
C26_Original ==
    /\ StartedInOrder
    /\ (Completed /\ "FAILURE" \notin StepStatuses)
            => Count("StepStart") = Len(config.steps)

\* C26 as amended: the prefix is the whole list whenever the run ends with
\* PipelineEnd{SUCCESS} or PipelineEnd{WARNING}
C26_DeclarationOrder ==
    /\ StartedInOrder
    /\ (\E k \in Idx("PipelineEnd") : events[k].status # "FAILURE")
            => /\ Count("StepStart") = Len(config.steps)
               /\ "FAILURE" \notin StepStatuses

\* both steps ran to the end although the first depends on the second
C26_Witness ==
    /\ Completed
    /\ Len(config.steps) = 2
    /\ config.steps[1].depends_on = {config.steps[2].name}
    /\ Count("StepStart") = 2
    /\ LastEvent = PipelineEnd("SUCCESS")

(***************************************************************************)
(* C27.  In debug mode, when start_persistent_container raises DockerError *)
(* the next event is PipelineEnd{FAILURE} and the run returns: no          *)
(* StepStart is emitted, exec_in_container is never called, and            *)
(* stop_and_remove_container is not called since no container exists.      *)
(***************************************************************************)
FailedStarts ==
    {c \in Called("start_persistent_container") : calls[c].result = "DockerError"}

C27_StartFailureEndsRun ==
    \A c \in FailedStarts :
        /\ Len(events) = calls[c].at + 1
        /\ LastEvent = PipelineEnd("FAILURE")
        /\ Count("StepStart") = 0
        /\ Called("exec_in_container") = {}
        /\ StopCalls = {}
        /\ container_id = None
        /\ containers = {}
        /\ exception = None
        /\ pc \in {"ended", "done", "closed"}

\* the generator returned after a failed start in a run with declared steps
C27_Witness ==
    /\ pc = "done"
    /\ FailedStarts # {}
    /\ Len(config.steps) = 2
    /\ events = <<PipelineStart(2, config.log_level), PipelineEnd("FAILURE")>>

(***************************************************************************)
(* C28.  Log demultiplexing is independent of chunking: on a stream that   *)
(* is a concatenation of valid frames, whatever the chunks (splits inside  *)
(* a header or a payload included), _demultiplex_docker_stream yields one  *)
(* (stream, text) pair per frame, in order, the text being the decoded     *)
(* payload and the stream being stderr exactly when the type byte is 2;    *)
(* this is what one chunk per frame yields.                                *)
(***************************************************************************)
ExpectedPairs ==
    [i \in 1..Len(sent) |->
        <<IF sent[i].type = 2 THEN "stderr" ELSE "stdout",
          Decode(sent[i].payload)>>]

C28_ChunkingIndependent ==
    residue = <<>> =>
        /\ Len(decoded) <= Len(sent)
        /\ decoded = SubSeq(ExpectedPairs, 1, Len(decoded))
        /\ demux_pc = "done" => decoded = ExpectedPairs

\* two frames, the first on stderr, delivered with a chunk boundary inside
\* a header and another inside a payload
C28_Witness ==
    /\ demux_pc = "done"
    /\ residue = <<>>
    /\ Len(sent) = 2
    /\ sent[1].type = 2
    /\ sent[2].payload = <<255, 98>>
    /\ splits = {"header", "payload"}
    /\ decoded = <<<<"stderr", Decode(sent[1].payload)>>, <<"stdout", <<98>>>>>>

(***************************************************************************)
(* C29.  Every configuration accepted by validation has pairwise distinct  *)
(* step names: a configuration in which two steps share a name is          *)
(* rejected.                                                               *)
(***************************************************************************)
DistinctNames ==
    \A i, j \in DOMAIN declared : i # j => declared[i].name # declared[j].name

C29_DistinctStepNames == verdict = "accepted" => DistinctNames

(***************************************************************************)
(* C30.  Validation accepts a step list if and only if every depends_on    *)
(* entry names a declared step, no step depends on itself, and the         *)
(* dependency graph has no cycle, the last being decided by a reference    *)
(* check that peels off the steps with no dependency left.                 *)
(***************************************************************************)
\* the dependencies declared under a name, by any step of that name
DependsOn(n) == UNION {declared[i].depends_on : i \in {j \in DOMAIN declared : declared[j].name = n}}

RECURSIVE Peels(_)
Peels(names) ==
    IF names = {}
    THEN TRUE
    ELSE LET free == {n \in names : DependsOn(n) \cap names = {}}
         IN  free # {} /\ Peels(names \ free)

ReferenceAccepts ==
    /\ \A n \in NamesOf(declared) : DependsOn(n) \subseteq NamesOf(declared)
    /\ \A n \in NamesOf(declared) : n \notin DependsOn(n)
    /\ Peels(NamesOf(declared))

Validated == verdict \in {"accepted", "ValueError"}

C30_ValidatorMatchesReference ==
    Validated => (verdict = "accepted" <=> ReferenceAccepts)

\* the part of C30 that holds: on step lists with pairwise distinct names
\* the validator and the reference agree
ValidatorMatchesOnDistinctNames ==
    (Validated /\ DistinctNames) => (verdict = "accepted" <=> ReferenceAccepts)

\* a diamond is accepted, a two-step cycle and a three-step cycle rejected
DiamondAccepted ==
    declared = <<DagStep("a", {"b", "c"}), DagStep("b", {"d"}),
                 DagStep("c", {"d"}), DagStep("d", {})>>
        => verdict \in {"pending", "accepted"}
CyclesRejected ==
    (\/ declared = <<DagStep("a", {"b"}), DagStep("b", {"a"})>>
     \/ declared = <<DagStep("a", {"b"}), DagStep("b", {"c"}), DagStep("c", {"a"})>>)
        => verdict \in {"pending", "ValueError"}

(***************************************************************************)
(* C31.  When the driver's sequence of a step ends without a terminal      *)
(* integer, the effective exit code is 1: the step is FAILURE or WARNING,  *)
(* never SUCCESS.  A terminal integer, 0 included, is StepEnd.exit_code    *)
(* unchanged.                                                              *)
(***************************************************************************)
C31_MissingExitCodeIsOne ==
    \A m \in Idx("StepEnd") :
        outcomes[EndOrdinal(m)].kind = "exit" =>
            LET value == outcomes[EndOrdinal(m)].value
            IN  /\ value = {} =>
                    /\ events[m].exit_code = 1
                    /\ events[m].status =
                         (IF events[m].step.critical THEN "FAILURE" ELSE "WARNING")
                /\ value # {} => value = {events[m].exit_code}

\* a step whose sequence is empty and returns nothing, then a step that
\* returns 0 after a frame
C31_Witness ==
    /\ Completed
    /\ Len(outcomes) = 2
    /\ outcomes[1].kind = "exit" /\ outcomes[1].value = {} /\ frames[1] = <<>>
    /\ outcomes[2].kind = "exit" /\ outcomes[2].value = {0} /\ frames[2] # <<>>
    /\ \E m, n \in Idx("StepEnd") :
        /\ m < n
        /\ events[m].exit_code = 1 /\ events[m].status = "WARNING"
        /\ events[n].exit_code = 0 /\ events[n].status = "SUCCESS"

(***************************************************************************)
(* C32.  During build_image a streamed chunk that carries an error field   *)
(* aborts the build sequence with DockerError: no (step, line) tuple is    *)
(* yielded after it, and the orchestrator emits ImageBuildEnd{FAILURE}.    *)
(***************************************************************************)
ErrorChunkBuilds ==
    {c \in Called("build_image") : calls[c].result = "error chunk"}

SoftErrors ==
    {i \in 1..Len(outcomes) :
        outcomes[i].kind = "DockerError" /\ ~config.steps[i].critical}

C33_ErrorNotSoftened ==
    \A i \in SoftErrors :
        /\ \A m \in Idx("StepEnd") :
            EndOrdinal(m) = i =>
                /\ events[m].status = "FAILURE"
                /\ events[m].exit_code = 1
                /\ events[m].step = config.steps[i]
        /\ Count("StepEnd") = i
        /\ \A k \in Idx("StepStart") : StepOrdinal(k) <= i
        /\ \A k \in Idx("PipelineEnd") : events[k].status = "FAILURE"
        /\ pc \in {"ended", "done"} => LastEvent = PipelineEnd("FAILURE")
        /\ exception = None

\* standard mode: a non-critical step ended with a warning, then the driver
\* raised in the next non-critical step
C33_Witness ==
    /\ Completed
    /\ ~debug
    /\ SoftErrors = {2}
    /\ outcomes[1].kind = "exit"
    /\ \E m \in Idx("StepEnd") : EndOrdinal(m) = 1 /\ events[m].status = "WARNING"
    /\ LastEvent = PipelineEnd("FAILURE")

(***************************************************************************)
(* C34.  For a recipe configuration, a DockerError raised by               *)
(* fingerprinting, by the image_exists cache check or by counting the      *)
(* recipe's steps is fatal and silent: no ImageBuildStart, Progress or End *)
(* event is emitted, build_image is never called, and the event stream is  *)
(* exactly PipelineStart followed by PipelineEnd{FAILURE}; a failing cache *)
(* check does not fall through to a build.                                 *)
(***************************************************************************)
RecipeChecks ==
    {"calculate_dockerfile_hash", "image_exists", "count_dockerfile_steps"}
FailedRecipeChecks ==
    {c \in 1..Len(calls) :
        /\ Truthy(config.docker.dockerfile)
        /\ calls[c].op \in RecipeChecks
        /\ calls[c].result = "DockerError"}

C34_RecipeCheckErrorIsFatal ==
    FailedRecipeChecks # {} =>
        /\ Cardinality(FailedRecipeChecks) = 1
        /\ \A k \in 1..Len(events) : events[k].type \notin PrepareEvents
        /\ Called("build_image") = {}
        /\ Called("pull_image") = {}
        /\ \A c \in DriverCalls : calls[c].op \in RecipeChecks
        /\ docker_image = None
        /\ Logged("build preparation failed")
        /\ \/ events = <<PipelineStart(Len(config.steps), config.log_level)>>
           \/ events = <<PipelineStart(Len(config.steps), config.log_level),
                         PipelineEnd("FAILURE")>>
        /\ pc \in {"ended", "done"} => Len(events) = 2
        /\ exception = None

\* the cache check of a recipe image raised and the run completed
C34_Witness ==
    /\ Completed
    /\ \E c \in FailedRecipeChecks : calls[c].op = "image_exists"
    /\ Len(config.steps) = 2
    /\ events = <<PipelineStart(2, config.log_level), PipelineEnd("FAILURE")>>

(***************************************************************************)
(* C35.  In debug mode, stop_and_remove is invoked strictly after the last *)
(* step event (StepEnd, or DebugShellStarting when one is emitted) has     *)
(* been delivered and the consumer has requested the next event, and       *)
(* strictly before PipelineEnd is emitted; the persistent container has    *)
(* not been stopped while the consumer is handling DebugShellStarting.     *)
(***************************************************************************)
\* this step of run() invokes stop_and_remove_container
Stops == StopCalls' # StopCalls
\* the event delivered last closes the steps of the run
AfterLastStepEvent ==
    /\ at_yield
    /\ LastEvent.type \in {"StepEnd", "DebugShellStarting"}
    /\ Count("DebugShellStarting") > 0 => LastEvent.type = "DebugShellStarting"
\* the generator is suspended at DebugShellStarting: the consumer has the
\* event and has not asked for the next one
HandlingShell == pc = "shell" /\ at_yield
ContainerUp == StopCalls = {} /\ container_id \in containers /\ removals = <<>>

\* C35 as stated: violated when the consumer closes the generator, which
\* invokes stop_and_remove without a request for the next event, after an
\* event that may be a StepStart or a LogLine, and with no PipelineEnd
C35_Original ==
    /\ [](HandlingShell => ContainerUp)
    /\ [][(Stops /\ Count("StepStart") > 0) =>
            /\ AfterLastStepEvent
            /\ pc' # "closed"
            /\ events' = Append(events, PipelineEnd(final_status'))]_vars

\* C35 as amended: the above in a run the consumer drives on; when the
\* consumer closes the generator, stop_and_remove is invoked at the close,
\* after the event delivered last, and no event follows
C35_StopAfterDelivery ==
    /\ [](HandlingShell => ContainerUp)
    /\ [][Stops =>
            /\ debug
            /\ ContainerUp
            /\ Count("PipelineEnd") = 0
            /\ IF pc' = "closed"
               THEN at_yield /\ events' = events
               ELSE /\ Count("StepStart") > 0 => AfterLastStepEvent
                    /\ events' = Append(events, PipelineEnd(final_status'))]_vars

\* the shell event was delivered, the consumer asked for the next event,
\* the container was stopped and PipelineEnd followed
C35_Witness ==
    /\ Completed
    /\ debug
    /\ Count("DebugShellStarting") = 1
    /\ \E c \in StopCalls :
        /\ events[calls[c].at].type = "DebugShellStarting"
        /\ Len(events) = calls[c].at + 1
    /\ LastEvent = PipelineEnd("FAILURE")
    /\ containers = {}

(***************************************************************************)
(* C36.  In standard mode at most one transient container exists at any    *)
(* point of a run, and the container of a step has been removed when the   *)
(* step's StepEnd is emitted: no container exists when the next StepStart  *)
(* or PipelineEnd is emitted.                                              *)
(***************************************************************************)
\* run() is suspended at the yield of an event of one of the types
DeliveredNow(types) == at_yield /\ events # <<>> /\ LastEvent.type \in types

C36_OneTransientContainer ==
    (~debug /\ Proceeded) =>
        /\ Cardinality(containers) <= 1
        /\ containers \subseteq {TransientIds[i] : i \in 1..Len(config.steps)}
        /\ DeliveredNow({"StepStart", "StepEnd", "PipelineEnd"}) => containers = {}
        /\ \A m \in Idx("StepEnd") :
            /\ TransientIds[EndOrdinal(m)] \notin containers
            /\ \A c \in RunCalls :
                calls[c].result = TransientIds[EndOrdinal(m)] =>
                    Removals(TransientIds[EndOrdinal(m)]) = 1

\* standard mode: the container of the first step is gone, that of the
\* second step exists and streams
C36_Witness ==
    /\ ~debug
    /\ Len(config.steps) = 2
    /\ step_idx = 2
    /\ pc = "stream"
    /\ containers = {TransientIds[2]}
    /\ removals = <<TransientIds[1]>>
    /\ Count("StepEnd") = 1
    /\ LastEvent.type = "LogLine"

(***************************************************************************)
(* C37.  Debug and standard mode are observationally equivalent up to the  *)
(* shell event: for the same configuration and the same per-step driver    *)
(* outcomes (log frames and exit code, or DockerError), image preparation  *)
(* and start_persistent succeeding, the debug-mode event stream with       *)
(* DebugShellStarting removed is identical to the standard-mode event      *)
(* stream.  Both are the same function of the configuration, of what       *)
(* preparation did and of the driver outcomes, in which the mode does not  *)
(* occur.                                                                  *)
(***************************************************************************)
NotShell(e) == e.type # "DebugShellStarting"
\* the stream of preparation, from the driver calls it made
PreparationStream ==
    IF Called("pull_image") # {}
    THEN <<ImagePullStart(config.docker.image), ImagePullEnd("SUCCESS")>>
    ELSE IF Called("build_image") # {}
    THEN <<ImageBuildStart(Recipe.path, Recipe.tag, Recipe.instructions)>> \o
         [k \in 1..BuildLines |-> ImageBuildProgress(k, "Step")] \o
         <<ImageBuildEnd("SUCCESS")>>
    ELSE <<>>
\* status and exit code of step i from the outcome of its driver sequence
OutcomeCode(i) ==
    IF outcomes[i].kind = "DockerError" THEN 1
    ELSE IF outcomes[i].value = {} THEN 1
    ELSE CHOOSE c \in outcomes[i].value : TRUE
OutcomeStatus(i) ==
    IF outcomes[i].kind = "DockerError" THEN "FAILURE"
    ELSE IF OutcomeCode(i) = 0 THEN "SUCCESS"
    ELSE IF config.steps[i].critical THEN "FAILURE"
    ELSE "WARNING"
StepStream(i) ==
    <<StepStart(config.steps[i])>> \o
    [k \in 1..Len(frames[i]) |->
        LogLine(frames[i][k].line, frames[i][k].stream, config.steps[i].name)] \o
    <<StepEnd(config.steps[i], OutcomeStatus(i), OutcomeCode(i))>>
RECURSIVE StepStreams(_)
StepStreams(n) == IF n = 0 THEN <<>> ELSE StepStreams(n - 1) \o StepStream(n)
OutcomeStatuses == {OutcomeStatus(i) : i \in 1..Len(outcomes)}
OverallStatus ==
    IF "FAILURE" \in OutcomeStatuses THEN "FAILURE"
    ELSE IF "WARNING" \in OutcomeStatuses THEN "WARNING"
    ELSE "SUCCESS"
\* the steps that run: all of them, or those up to the first failure
RanUpToFailure ==
    /\ \A i \in 1..Len(outcomes) : OutcomeStatus(i) = "FAILURE" => i = Len(outcomes)
    /\ "FAILURE" \notin OutcomeStatuses => Len(outcomes) = Len(config.steps)
ModeFreeStream ==
    <<PipelineStart(Len(config.steps), config.log_level)>> \o PreparationStream \o
    StepStreams(Len(outcomes)) \o <<PipelineEnd(OverallStatus)>>
\* the run completed with an image, a container in debug mode, and every
\* driver sequence ending with a value or with DockerError
ComparableRun ==
    /\ Completed
    /\ docker_image # None
    /\ debug => container_id # None
    /\ \A i \in 1..Len(outcomes) : outcomes[i].kind \in {"exit", "DockerError"}

C37_ModesEquivalent ==
    ComparableRun =>
        /\ RanUpToFailure
        /\ SelectSeq(events, NotShell) = ModeFreeStream
        /\ ~debug => events = ModeFreeStream

\* a debug run with a shell event: a warning, then a critical failure
C37_Witness ==
    /\ ComparableRun
    /\ debug
    /\ Count("DebugShellStarting") = 1
    /\ Len(outcomes) = 2
    /\ OutcomeStatus(1) = "WARNING"
    /\ OutcomeStatus(2) = "FAILURE"
    /\ outcomes[2].kind = "exit"
    /\ Len(frames[1]) = 1
    /\ Len(events) = Len(ModeFreeStream) + 1

(***************************************************************************)
(* C38.  The filter gate probes source control lazily and in a fixed       *)
(* order: a manual run and a run whose hook is disabled never query the    *)
(* branch or the commit message; the branch is queried only when           *)
(* filters.branches is set; the staged commit message is queried only for  *)
(* pre-commit runs with filters.commits set and only after the branch      *)
(* filter has passed; a probe failure affects a run only if that probe     *)
(* was needed for the decision.                                            *)
(***************************************************************************)
Probes(op) == {c \in 1..Len(calls) : calls[c].on = "scm" /\ calls[c].op = op}
BranchProbes == Probes("get_current_branch")
MessageProbes == Probes("get_staged_commit_message")
BranchFilterSet == config.filters.present /\ Truthy(config.filters.branches)
CommitFilterSet == config.filters.present /\ Truthy(config.filters.commits)
BranchFilterPassed ==
    ~BranchFilterSet
    \/ (scm.branch # ScmFail /\ ReMatch(config.filters.branches, scm.branch))

C38_LazyProbes ==
    GateEvaluated =>
        /\ (hook_type = None \/ ~HookFlag) => BranchProbes \cup MessageProbes = {}
        /\ Cardinality(BranchProbes) <= 1 /\ Cardinality(MessageProbes) <= 1
        /\ BranchProbes # {} <=> (HookFlag /\ BranchFilterSet)
        /\ MessageProbes # {} <=>
              /\ HookFlag
              /\ hook_type = "pre-commit"
              /\ CommitFilterSet
              /\ BranchFilterPassed
        /\ \A b \in BranchProbes, m \in MessageProbes : b < m
        /\ ProbeFailed <=>
              \/ BranchProbes # {} /\ scm.branch = ScmFail
              \/ MessageProbes # {} /\ scm.message = ScmFail

\* the message cannot be read, but the branch filter rejected the run
\* first: the run is skipped and the message was never asked for
C38_Witness ==
    /\ Skipped
    /\ hook_type = "pre-commit"
    /\ CommitFilterSet
    /\ scm.message = ScmFail
    /\ Cardinality(BranchProbes) = 1
    /\ MessageProbes = {}
    /\ exception = None

(***************************************************************************)
(* C39.  In stop_and_remove_container, stop and remove are not independent *)
(* attempts: when looking up or stopping the container fails with an API   *)
(* error, remove is never attempted, the container is left in place, and   *)
(* the call still returns normally with a single warning.                  *)
(***************************************************************************)
FailedStops ==
    {c \in StopCalls : calls[c].result \in {"get_error", "stop_error"}}

C39_StopFailureSkipsRemove ==
    \A c \in FailedStops :
        /\ Removals(calls[c].args[1]) = 0
        /\ calls[c].args[1] \in containers
        /\ Cardinality(CleanupWarnings) = 1
        /\ \A w \in CleanupWarnings : w = c + 1
        /\ exception = None
        /\ pc \in {"ended", "done", "closed"}
        /\ pc # "closed" => LastEvent = PipelineEnd(final_status)

\* stopping failed at the end of a debug run whose steps all succeeded
C39_Witness ==
    /\ Completed
    /\ \E c \in FailedStops : calls[c].result = "stop_error"
    /\ Count("StepEnd") = 2
    /\ containers = {PersistentId}
    /\ removals = <<>>
    /\ LastEvent = PipelineEnd("SUCCESS")

(***************************************************************************)
(* C40.  Image events are well bracketed and confined to the preparation   *)
(* phase: every ImagePullStart or ImageBuildStart is followed by exactly   *)
(* one matching ImagePullEnd or ImageBuildEnd before any StepStart or      *)
(* PipelineEnd, ImageBuildProgress events occur only between               *)
(* ImageBuildStart and ImageBuildEnd, pull and build events never both     *)
(* occur in one run, and a StepStart is emitted only if preparation        *)
(* produced no End event with status FAILURE.                              *)
(***************************************************************************)
PrepareStarts == Idx("ImagePullStart") \cup Idx("ImageBuildStart")
PullEvents == Idx("ImagePullStart") \cup Idx("ImagePullEnd")
BuildEvents ==
    Idx("ImageBuildStart") \cup Idx("ImageBuildProgress") \cup Idx("ImageBuildEnd")
EndTypeOf(t) == IF t = "ImagePullStart" THEN "ImagePullEnd" ELSE "ImageBuildEnd"
\* the Ends that match the Start at s and lie before position k
EndsBetween(s, k) ==
    {e \in Idx(EndTypeOf(events[s].type)) : s < e /\ e < k}
AfterPreparation == Idx("StepStart") \cup Idx("PipelineEnd")

C40_ImageEventsBracketed ==
    /\ PullEvents = {} \/ BuildEvents = {}
    /\ Cardinality(PrepareStarts) <= 1
    /\ \A s \in PrepareStarts :
        /\ s = 2
        /\ Cardinality(EndsBetween(s, Len(events) + 1)) <= 1
        /\ \A k \in AfterPreparation :
            /\ Cardinality(EndsBetween(s, k)) = 1
            /\ \A e \in EndsBetween(s, k) : \A j \in (s + 1)..(e - 1) :
                events[s].type = "ImageBuildStart" /\ events[j].type = "ImageBuildProgress"
    /\ \A e \in PrepareEnds :
        \E s \in PrepareStarts : e \in EndsBetween(s, Len(events) + 1)
    /\ \A p \in Idx("ImageBuildProgress") :
        /\ \E s \in Idx("ImageBuildStart") : s < p
        /\ \A e \in Idx("ImageBuildEnd") : p < e
    /\ \A k \in AfterPreparation, j \in PullEvents \cup BuildEvents : j < k
    /\ Idx("StepStart") # {} => FailedPrepareEnds = {}
    /\ pc \in {"ended", "done"} =>
        \A s \in PrepareStarts : Cardinality(EndsBetween(s, Len(events))) = 1

\* a build with a progress line, then the steps of the run
C40_Witness ==
    /\ Completed
    /\ Len(events) >= 6
    /\ events[2].type = "ImageBuildStart"
    /\ events[3].type = "ImageBuildProgress"
    /\ events[4] = ImageBuildEnd("SUCCESS")
    /\ events[5].type = "StepStart"
    /\ LastEvent.type = "PipelineEnd"

=============================================================================
